---- MODULE Spec2Model ----
(***************************************************************************)
(* cc-sync: the server-side sync protocol (pushSync, pullSync,             *)
(* resolveConflict, deleteFile) over the configFiles / sessionFiles /      *)
(* syncConflicts tables of the Convex backend, and the SyncEngine of the   *)
(* command-line client (debounce, minimum interval, full sync).            *)
(***************************************************************************)
EXTENDS Integers, Sequences, FiniteSets, TLC

VARIABLES
  configFiles,    \* table configFiles: set of documents
  sessionFiles,   \* table sessionFiles: set of documents
  syncConflicts,  \* table syncConflicts: set of documents
  user,           \* the users document of the caller
  nextId,         \* next document id the database hands out
  now,            \* Date.now() of the server
  syncRoot,       \* the paths the devices of this run keep under the sync root
  request,        \* the last call to the backend: the arguments its handler read
  response,       \* what that call returned, or the error it threw
  highestVersion, \* history: the highest version each path's entry has had
  engine,         \* the SyncEngine of each device: its fields and its timers
  disk,           \* the files each device holds under its sync root
  trace           \* history: what the scheduler of each device has been through

serverVars == <<configFiles, sessionFiles, syncConflicts, user, nextId, now, syncRoot,
                request, response, highestVersion>>

clientVars == <<engine, disk, trace>>

vars == <<configFiles, sessionFiles, syncConflicts, user, nextId, now, syncRoot,
          request, response, highestVersion, engine, disk, trace>>

-----------------------------------------------------------------------------
(* Bounds of the model *)

MaxTime == 2        \* the clock runs from 1 to MaxTime
MaxIds == 3         \* documents the database creates in one run
MaxVersion == 2     \* highest version an entry reaches
MaxElapses == 16    \* steps of the client's clock in a run of the scheduler
MaxRetryTimers == 2 \* rate-limit reschedules waiting at one time
MaxPulls == 2       \* pull-only syncs in flight at one time
RealtimeTicks == 5  \* steps of the clock while the live subscription is watched
MaxTouches == 2     \* files modified under a scanned sync root
MaxUnreadable == 1  \* files under a sync root that cannot be read
MaxResolvedVersion == 3 \* highest version an entry reaches after a resolution

Devices == {"devA", "devB"}
UserId == "u1"
ValidKey == "key-u1"
ApiKeys == {ValidKey, "bad-key"}
\* a second account and its credential
OtherUserId == "u2"
OtherKey == "key-u2"

MdPath == "CLAUDE.md"
TodoPath == "todos/s1-agent-s1.json"
ProjectPath == "projects/p1/s1.jsonl"
Paths == {MdPath, TodoPath, ProjectPath}
\* the sync roots of the model, each the paths it holds in the order the scan
\* meets them
SyncRoots == {<<MdPath>>, <<TodoPath>>, <<ProjectPath>>}

\* sync roots that hold two files, in either scan order
BatchRoots == {<<MdPath, TodoPath>>, <<TodoPath, MdPath>>}

\* the contents a device may hold locally for a path
LocalContents(p) ==
  IF p = MdPath THEN {"a", "bb"}
  ELSE IF p = TodoPath THEN {"{\"a\":1}", "{\"a\":2,\"b\":3}"}
  ELSE {"{\"id\":1,\"timestamp\":5}", "{\"id\":1,\"timestamp\":9}\nzz"}

MTimes == {1}

RECURSIVE SumOfSizes(_)
SumOfSizes(contents) ==
  IF contents = {} THEN 0
  ELSE LET c == CHOOSE x \in contents : TRUE
       IN Len(c) + SumOfSizes(contents \ {c})

RECURSIVE StorageLimitOf(_)
\* user.storageLimit, scaled down from 100 MB: room for each local content of
\* the sync root once
StorageLimitOf(root) ==
  IF Len(root) = 0 THEN 0
  ELSE SumOfSizes(LocalContents(Head(root))) + StorageLimitOf(Tail(root))

\* the byte length of the largest local content of the paths of a root
LargestSize(root) ==
  CHOOSE n \in {Len(c) : c \in UNION {LocalContents(root[i]) : i \in 1..Len(root)}} :
    \A c \in UNION {LocalContents(root[i]) : i \in 1..Len(root)} : Len(c) <= n

-----------------------------------------------------------------------------
(* Strings *)

StartsWith(s, prefix) ==
  Len(s) >= Len(prefix) /\ SubSeq(s, 1, Len(prefix)) = prefix

EndsWith(s, suffix) ==
  Len(s) >= Len(suffix) /\ SubSeq(s, Len(s) - Len(suffix) + 1, Len(s)) = suffix

RECURSIVE SplitFrom(_, _, _, _)
SplitFrom(s, sep, i, cur) ==
  IF i > Len(s) THEN <<cur>>
  ELSE IF SubSeq(s, i, i) = sep THEN <<cur>> \o SplitFrom(s, sep, i + 1, "")
  ELSE SplitFrom(s, sep, i + 1, cur \o SubSeq(s, i, i))

\* String.prototype.split with a one-character separator
Split(s, sep) == SplitFrom(s, sep, 1, "")

\* new Blob([content]).size for ASCII content
ByteLength(content) == Len(content)

\* SHA-256 hex digest, taken as collision free
computeHash(content) == "sha256:" \o content

-----------------------------------------------------------------------------
(* JSON texts: flat objects with natural-number values, the documents the    *)
(* model's devices write.  An object is the sequence of its <<key, value>>   *)
(* members in insertion order.                                               *)

Digits == <<"0", "1", "2", "3", "4", "5", "6", "7", "8", "9">>

IsDigit(c) == \E d \in 1..10 : Digits[d] = c

DigitValue(c) == (CHOOSE d \in 1..10 : Digits[d] = c) - 1

RECURSIVE StripWhitespace(_, _)
\* the text without the blanks and line breaks between its tokens
StripWhitespace(s, i) ==
  IF i > Len(s) THEN ""
  ELSE LET c == SubSeq(s, i, i)
       IN (IF c = " " \/ c = "\n" THEN "" ELSE c) \o StripWhitespace(s, i + 1)

IsNumberText(t) ==
  /\ Len(t) >= 1
  /\ \A i \in 1..Len(t) : IsDigit(SubSeq(t, i, i))
  /\ (Len(t) > 1 => SubSeq(t, 1, 1) # "0")

RECURSIVE NumberValue(_, _)
NumberValue(t, n) ==
  IF n = 0 THEN 0 ELSE 10 * NumberValue(t, n - 1) + DigitValue(SubSeq(t, n, n))

IsKeyText(t) ==
  /\ Len(t) >= 2
  /\ SubSeq(t, 1, 1) = "\""
  /\ SubSeq(t, Len(t), Len(t)) = "\""
  /\ \A i \in 2..(Len(t) - 1) : SubSeq(t, i, i) # "\""

HasKey(obj, k) == \E i \in 1..Len(obj) : obj[i][1] = k

\* obj[k] = v: an existing key keeps its place, a new one goes last
SetKey(obj, k, v) ==
  IF HasKey(obj, k)
  THEN [i \in 1..Len(obj) |-> IF obj[i][1] = k THEN <<k, v>> ELSE obj[i]]
  ELSE Append(obj, <<k, v>>)

\* obj.k where a missing key and 0 are both falsy
Field(obj, k) ==
  IF HasKey(obj, k) THEN (CHOOSE m \in {obj[i] : i \in 1..Len(obj)} : m[1] = k)[2] ELSE 0

\* kv is what a member text splits into at its colon
IsKeyValue(kv) == Len(kv) = 2 /\ IsKeyText(kv[1]) /\ IsNumberText(kv[2])

IsMemberText(t) == IsKeyValue(Split(t, ":"))

\* obj with the member kv splits into
SetMember(obj, kv) ==
  SetKey(obj, SubSeq(kv[1], 2, Len(kv[1]) - 1), NumberValue(kv[2], Len(kv[2])))

RECURSIVE MembersOf(_, _, _)
MembersOf(texts, i, obj) ==
  IF i > Len(texts) THEN obj
  ELSE MembersOf(texts, i + 1, SetMember(obj, Split(texts[i], ":")))

\* the object of the member texts between the braces
ParseMembers(texts) ==
  IF \A i \in 1..Len(texts) : IsMemberText(texts[i])
  THEN [ok |-> TRUE, obj |-> MembersOf(texts, 1, <<>>)]
  ELSE [ok |-> FALSE, obj |-> <<>>]

\* the object of a text without blanks
ParseStripped(t) ==
  IF Len(t) < 2 \/ SubSeq(t, 1, 1) # "{" \/ SubSeq(t, Len(t), Len(t)) # "}"
  THEN [ok |-> FALSE, obj |-> <<>>]
  ELSE IF Len(t) = 2
  THEN [ok |-> TRUE, obj |-> <<>>]
  ELSE ParseMembers(Split(SubSeq(t, 2, Len(t) - 1), ","))

\* JSON.parse: ok is FALSE where it throws
JSONParse(text) == ParseStripped(StripWhitespace(text, 1))

RECURSIVE Join(_, _, _)
\* Array.prototype.join
Join(texts, sep, i) ==
  IF i > Len(texts) THEN ""
  ELSE IF i = Len(texts) THEN texts[i]
  ELSE texts[i] \o sep \o Join(texts, sep, i + 1)

\* JSON.stringify(obj)
JSONStringify(obj) ==
  "{" \o Join([i \in 1..Len(obj) |-> "\"" \o obj[i][1] \o "\":" \o ToString(obj[i][2])],
               ",", 1) \o "}"

\* JSON.stringify(obj, null, 2)
JSONStringifyIndented(obj) ==
  IF obj = <<>> THEN "{}"
  ELSE "{\n"
       \o Join([i \in 1..Len(obj) |-> "  \"" \o obj[i][1] \o "\": " \o ToString(obj[i][2])],
               ",\n", 1)
       \o "\n}"

RECURSIVE SpreadKeepingFirst(_, _, _)
\* the spread in which a key of objA keeps objA's value
SpreadKeepingFirst(objA, objB, i) ==
  IF i > Len(objB) THEN objA
  ELSE SpreadKeepingFirst(IF HasKey(objA, objB[i][1]) THEN objA
                          ELSE SetKey(objA, objB[i][1], objB[i][2]), objB, i + 1)

RECURSIVE Spread(_, _, _)
\* { ...objA, ...objB }
Spread(objA, objB, i) ==
  IF i > Len(objB) THEN objA
  ELSE Spread(SetKey(objA, objB[i][1], objB[i][2]), objB, i + 1)

-----------------------------------------------------------------------------
(* conflicts.ts: mergeJSON, mergeJSONL *)

\* the merge of the two parse results a and b
MergeParsed(a, b, contentA, contentB) ==
  IF a.ok /\ b.ok
  THEN JSONStringifyIndented(Spread(a.obj, b.obj, 1))
  ELSE "<<<<<<< VERSION A\n" \o contentA \o "\n=======\n" \o contentB
       \o "\n>>>>>>> VERSION B"

mergeJSON(contentA, contentB) ==
  MergeParsed(JSONParse(contentA), JSONParse(contentB), contentA, contentB)

\* .filter(Boolean) on the lines of a text
NonEmpty(lines) == SelectSeq(lines, LAMBDA l : l # "")

\* the key of a line in the allLines map, p being what the line parses to:
\* obj.id || obj.uuid || obj.timestamp || line, or the line where it throws
KeyOf(p, line) ==
  IF ~p.ok THEN <<"string", line>>
  ELSE IF Field(p.obj, "id") # 0 THEN <<"number", Field(p.obj, "id")>>
  ELSE IF Field(p.obj, "uuid") # 0 THEN <<"number", Field(p.obj, "uuid")>>
  ELSE IF Field(p.obj, "timestamp") # 0 THEN <<"number", Field(p.obj, "timestamp")>>
  ELSE <<"string", line>>

LineKey(line) == KeyOf(JSONParse(line), line)

\* an entry of the map: its key, and its value, a parsed object or the line
LineEntry(p, key, line) ==
  IF p.ok THEN [key |-> key, isObject |-> TRUE, obj |-> p.obj, line |-> ""]
  ELSE [key |-> key, isObject |-> FALSE, obj |-> <<>>, line |-> line]

EntryTimestamp(e) == IF e.isObject THEN Field(e.obj, "timestamp") ELSE 0

\* allLines.set: a new key goes last, a key at the places at keeps its place
MapSet(map, at, entry) ==
  IF at = {} THEN Append(map, entry)
  ELSE [j \in 1..Len(map) |-> IF j \in at THEN entry ELSE map[j]]

\* the body of the loop in which a later line always replaces an earlier one
\* of its key
SetLineLastWins(map, at, p, entry) == MapSet(map, at, entry)

\* the body of the loop for a line that parses to p, its key found at the places at
SetLine(map, at, p, entry) ==
  IF ~p.ok THEN MapSet(map, at, entry)
  ELSE IF at = {} THEN MapSet(map, at, entry)
  ELSE IF /\ Field(p.obj, "timestamp") # 0
          /\ Field(p.obj, "timestamp") > EntryTimestamp(map[CHOOSE j \in at : TRUE])
  THEN MapSet(map, at, entry)
  ELSE map

AddLine(map, p, key, line) ==
  SetLine(map, {j \in 1..Len(map) : map[j].key = key}, p, LineEntry(p, key, line))

RECURSIVE CollectLines(_, _, _)
\* the loop over [...linesA, ...linesB]; map is the Map in insertion order
CollectLines(lines, i, map) ==
  IF i > Len(lines) THEN map
  ELSE CollectLines(lines, i + 1,
                    AddLine(map, JSONParse(lines[i]), LineKey(lines[i]), lines[i]))

\* the comparator of the sort: negative, zero or positive
CompareEntries(a, b) ==
  IF a.isObject /\ b.isObject THEN EntryTimestamp(a) - EntryTimestamp(b) ELSE 0

RECURSIVE InsertSorted(_, _)
\* e goes after the last entry that does not compare greater than it
InsertSorted(sorted, e) ==
  IF sorted = <<>> THEN <<e>>
  ELSE IF CompareEntries(sorted[Len(sorted)], e) > 0
  THEN Append(InsertSorted(SubSeq(sorted, 1, Len(sorted) - 1), e), sorted[Len(sorted)])
  ELSE Append(sorted, e)

RECURSIVE SortEntries(_, _, _)
\* Array.prototype.sort, a stable sort
SortEntries(entries, i, sorted) ==
  IF i > Len(entries) THEN sorted
  ELSE SortEntries(entries, i + 1, InsertSorted(sorted, entries[i]))

\* sorted.map(...).join("\n")
JoinEntries(sorted) ==
  Join([i \in 1..Len(sorted) |->
          IF sorted[i].isObject THEN JSONStringify(sorted[i].obj) ELSE sorted[i].line],
       "\n", 1)

mergeJSONL(contentA, contentB) ==
  JoinEntries(SortEntries(CollectLines(NonEmpty(Split(contentA, "\n"))
                                         \o NonEmpty(Split(contentB, "\n")),
                                       1, <<>>),
                          1, <<>>))

-----------------------------------------------------------------------------
(* sync.ts: categorizeFile *)

categorizeFile(filePath) ==
  IF \/ EndsWith(filePath, ".md")
     \/ filePath = "settings.json"
     \/ filePath = "history.jsonl"
     \/ StartsWith(filePath, "commands/")
     \/ StartsWith(filePath, "plugins/")
     \/ StartsWith(filePath, "agents/")
  THEN [table |-> "configFiles", sessionId |-> "", fileType |-> ""]
  ELSE IF StartsWith(filePath, "todos/")
  THEN LET parts == Split(filePath, "/")
           first == IF Len(parts) >= 2 THEN Split(parts[2], "-")[1] ELSE ""
       IN [table |-> "sessionFiles",
           sessionId |-> IF first = "" THEN "unknown" ELSE first,
           fileType |-> "todo"]
  ELSE IF StartsWith(filePath, "session-env/")
  THEN LET parts == Split(filePath, "/")
           second == IF Len(parts) >= 2 THEN parts[2] ELSE ""
       IN [table |-> "sessionFiles",
           sessionId |-> IF second = "" THEN "unknown" ELSE second,
           fileType |-> "session-env"]
  ELSE [table |-> "configFiles", sessionId |-> "", fileType |-> ""]

\* categorizeFile on the paths of the model, computed once
CategoryOf == [p \in Paths |-> categorizeFile(p)]

-----------------------------------------------------------------------------
(* The database *)

\* .withIndex("by_user_and_path", userId, filePath) on a table
ByUserAndPath(table, userId, filePath) ==
  {f \in table : f.userId = userId /\ f.filePath = filePath}

\* .first(): the oldest of the matching documents
First(docs) == CHOOSE f \in docs : \A g \in docs : f.id <= g.id

\* ctx.db.patch on a file document
PatchFile(table, id, content, contentHash, lastModified, version, syncedAt, deviceId) ==
  {IF f.id = id
   THEN [f EXCEPT !.content = content, !.contentHash = contentHash,
                  !.lastModified = lastModified, !.version = version,
                  !.syncedAt = syncedAt, !.deviceId = deviceId]
   ELSE f : f \in table}

ConfigDoc(id, userId, deviceId, filePath, content, contentHash, lastModified, syncedAt) ==
  [id |-> id, userId |-> userId, deviceId |-> deviceId, filePath |-> filePath,
   content |-> content, contentHash |-> contentHash, lastModified |-> lastModified,
   version |-> 1, syncedAt |-> syncedAt]

SessionDoc(id, userId, deviceId, sessionId, fileType, filePath, content, contentHash, lastModified, syncedAt) ==
  [id |-> id, userId |-> userId, deviceId |-> deviceId, sessionId |-> sessionId,
   fileType |-> fileType, filePath |-> filePath, content |-> content,
   contentHash |-> contentHash, lastModified |-> lastModified, version |-> 1,
   syncedAt |-> syncedAt]

\* no call is being served: the last one has returned to its caller
Idle == request.op = "none"

\* validateApiKeyInternal: the user of a key, or "null"
validateApiKeyInternal(apiKey) ==
  IF apiKey = ValidKey THEN UserId
  ELSE IF apiKey = OtherKey THEN OtherUserId
  ELSE "null"

-----------------------------------------------------------------------------
(* sync.ts: pushSync *)

\* an element of the results array
Result(filePath, status, conflictId, message) ==
  [filePath |-> filePath, status |-> status, conflictId |-> conflictId,
   message |-> message]

\* the storage quota check, on the user document read at the start of the handler
QuotaExceeded(snap, fileSize) == snap.storageUsed + fileSize > snap.storageLimit

\* hasConflict without the comparison of the devices
hasConflictAnyDevice(existing, file, deviceId) ==
  existing.contentHash # file.contentHash

\* hasConflict that never finds one: the last writer wins
hasConflictNever(existing, file, deviceId) == FALSE

\* const hasConflict: different content from a different device
hasConflict(existing, file, deviceId) ==
  existing.contentHash # file.contentHash /\ existing.deviceId # deviceId

\* the entry is over quota: an error result, nothing written
RejectEntry(file, db) ==
  [db EXCEPT !.results = Append(@, Result(file.filePath, "error", 0,
                                          "Storage quota exceeded"))]

\* the content has not changed: a success result, nothing written
SkipEntry(file, db) ==
  [db EXCEPT !.results = Append(@, Result(file.filePath, "success", 0, ""))]

\* RecordConflict with the two sides of the record exchanged
RecordConflictSidesExchanged(file, deviceId, existing, db) ==
  [db EXCEPT
     !.syncConflicts = @ \cup {[id |-> db.nextId, userId |-> UserId,
                                filePath |-> file.filePath,
                                deviceAId |-> deviceId,
                                deviceBId |-> existing.deviceId,
                                contentA |-> file.content,
                                contentB |-> existing.content,
                                createdAt |-> now,
                                resolvedAt |-> 0,
                                resolution |-> "none"]},
     !.nextId = @ + 1,
     !.results = Append(@, Result(file.filePath, "conflict", db.nextId, ""))]

\* RecordConflict that also writes the pushed content over the stored entry
RecordConflictOverwriting(file, deviceId, existing, db) ==
  [db EXCEPT
     !.configFiles = PatchFile(@, existing.id, file.content, file.contentHash,
                               file.lastModified, existing.version, now, deviceId),
     !.sessionFiles = PatchFile(@, existing.id, file.content, file.contentHash,
                                file.lastModified, existing.version, now, deviceId),
     !.syncConflicts = @ \cup {[id |-> db.nextId, userId |-> UserId,
                                filePath |-> file.filePath,
                                deviceAId |-> existing.deviceId,
                                deviceBId |-> deviceId,
                                contentA |-> existing.content,
                                contentB |-> file.content,
                                createdAt |-> now,
                                resolvedAt |-> 0,
                                resolution |-> "none"]},
     !.nextId = @ + 1,
     !.results = Append(@, Result(file.filePath, "conflict", db.nextId, ""))]

\* a conflict document is inserted, the file document is left alone
RecordConflict(file, deviceId, existing, db) ==
  [db EXCEPT
     !.syncConflicts = @ \cup {[id |-> db.nextId, userId |-> UserId,
                                filePath |-> file.filePath,
                                deviceAId |-> existing.deviceId,
                                deviceBId |-> deviceId,
                                contentA |-> existing.content,
                                contentB |-> file.content,
                                createdAt |-> now,
                                resolvedAt |-> 0,
                                resolution |-> "none"]},
     !.nextId = @ + 1,
     !.results = Append(@, Result(file.filePath, "conflict", db.nextId, ""))]

\* UpdateEntry that keeps the version of the stored entry
UpdateEntryKeepingVersion(file, deviceId, existing, tableName, db) ==
  LET table == IF tableName = "configFiles" THEN db.configFiles ELSE db.sessionFiles
      patched == PatchFile(table, existing.id, file.content, file.contentHash,
                           file.lastModified, existing.version, now, deviceId)
  IN [db EXCEPT
        !.configFiles = IF tableName = "configFiles" THEN patched ELSE @,
        !.sessionFiles = IF tableName = "sessionFiles" THEN patched ELSE @,
        !.results = Append(@, Result(file.filePath, "success", 0, ""))]

\* the existing file document is patched
UpdateEntry(file, deviceId, existing, tableName, db) ==
  LET table == IF tableName = "configFiles" THEN db.configFiles ELSE db.sessionFiles
      patched == PatchFile(table, existing.id, file.content, file.contentHash,
                           file.lastModified, existing.version + 1, now, deviceId)
  IN [db EXCEPT
        !.configFiles = IF tableName = "configFiles" THEN patched ELSE @,
        !.sessionFiles = IF tableName = "sessionFiles" THEN patched ELSE @,
        !.results = Append(@, Result(file.filePath, "success", 0, ""))]

\* a new file document is inserted and charged to the user
InsertEntry(file, deviceId, category, snap, db) ==
  [db EXCEPT
     !.configFiles =
        IF category.table = "configFiles"
        THEN @ \cup {ConfigDoc(db.nextId, UserId, deviceId, file.filePath,
                               file.content, file.contentHash, file.lastModified, now)}
        ELSE @,
     !.sessionFiles =
        IF category.table = "sessionFiles"
        THEN @ \cup {SessionDoc(db.nextId, UserId, deviceId,
                                IF category.sessionId = "" THEN "unknown"
                                ELSE category.sessionId,
                                IF category.fileType = "" THEN "todo"
                                ELSE category.fileType,
                                file.filePath, file.content, file.contentHash,
                                file.lastModified, now)}
        ELSE @,
     !.nextId = @ + 1,
     !.storageUsed = snap.storageUsed + ByteLength(file.content),
     !.results = Append(@, Result(file.filePath, "success", 0, ""))]

\* one iteration of the loop over args.files; snap is the user document read
\* at the start of the handler, db the tables as written so far
ProcessFile(file, deviceId, snap, db) ==
  LET category == CategoryOf[file.filePath]
      tableName == category.table
      fileSize == ByteLength(file.content)
      table == IF tableName = "configFiles" THEN db.configFiles ELSE db.sessionFiles
      found == ByUserAndPath(table, UserId, file.filePath)
  IN
  IF QuotaExceeded(snap, fileSize) THEN RejectEntry(file, db)
  ELSE IF found # {}
  THEN LET existing == First(found)
       IN IF existing.contentHash = file.contentHash THEN SkipEntry(file, db)
          ELSE IF hasConflict(existing, file, deviceId)
          THEN RecordConflict(file, deviceId, existing, db)
          ELSE UpdateEntry(file, deviceId, existing, tableName, db)
  ELSE InsertEntry(file, deviceId, category, snap, db)

RECURSIVE ProcessFilesUntilFailure(_, _, _, _, _)
\* ProcessFiles that gives up the rest of the batch at the first entry that
\* does not end in success
ProcessFilesUntilFailure(files, i, deviceId, snap, db) ==
  IF i > Len(files) THEN db
  ELSE IF i > 1 /\ db.results[i - 1].status # "success" THEN db
  ELSE ProcessFilesUntilFailure(files, i + 1, deviceId, snap,
                                ProcessFile(files[i], deviceId, snap, db))

RECURSIVE ProcessFiles(_, _, _, _, _)
ProcessFiles(files, i, deviceId, snap, db) ==
  IF i > Len(files) THEN db
  ELSE ProcessFiles(files, i + 1, deviceId, snap, ProcessFile(files[i], deviceId, snap, db))

\* the tables as the handler finds them
CurrentDb ==
  [configFiles |-> configFiles, sessionFiles |-> sessionFiles,
   syncConflicts |-> syncConflicts, storageUsed |-> user.storageUsed,
   nextId |-> nextId, results |-> <<>>]

AllFilesOf(db) == db.configFiles \cup db.sessionFiles

\* the bounds of the model, on the tables a handler leaves
WithinBounds(db) ==
  /\ db.nextId <= MaxIds + 1
  /\ \A f \in AllFilesOf(db) : f.version <= MaxVersion

\* the inventories a device may push: entries with distinct paths
FileRecords(p) == [filePath : {p}, content : LocalContents(p), lastModified : MTimes]

Hashed(r) == [filePath |-> r.filePath, content |-> r.content,
              contentHash |-> computeHash(r.content), lastModified |-> r.lastModified]

RECURSIVE Inventories(_)
\* what readLocalFiles may return for a root holding the paths ps, in scan order
Inventories(ps) ==
  IF ps = <<>> THEN {<<>>}
  ELSE LET rest == Inventories(Tail(ps))
       IN rest \cup {<<Hashed(r)>> \o t : r \in FileRecords(Head(ps)), t \in rest}

\* Inventories on the sync roots of the model, computed once
InventoriesOf == [r \in SyncRoots \cup BatchRoots |-> Inventories(r)]

Batches == {b \in InventoriesOf[syncRoot] : Len(b) >= 1}

\* the highest version among the entries of a path, 0 when it has none
RECURSIVE HighestOf(_)
HighestOf(versions) ==
  IF versions = {} THEN 0
  ELSE LET v == CHOOSE x \in versions : TRUE
       IN IF HighestOf(versions \ {v}) >= v THEN HighestOf(versions \ {v}) ELSE v

\* the history of versions follows the tables a handler leaves
RecordVersions ==
  highestVersion' =
    [p \in Paths |->
       HighestOf({highestVersion[p]}
                 \cup {f.version : f \in {g \in configFiles' \cup sessionFiles' : g.filePath = p}})]

\* a call served by the backend: the clients are not involved
ServerStep == RecordVersions /\ UNCHANGED clientVars

pushSyncAuthError(apiKey) ==
  /\ validateApiKeyInternal(apiKey) = "null"
  /\ request' = [op |-> "pushSync", apiKey |-> apiKey]
  /\ response' = [op |-> "pushSync", ok |-> FALSE, error |-> "Invalid API key"]
  /\ UNCHANGED <<configFiles, sessionFiles, syncConflicts, user, nextId, now, syncRoot>>
  /\ ServerStep

\* pushSyncRateLimited that stamps the user's last sync before it throws
pushSyncRateLimitedAfterStamp(apiKey) ==
  /\ validateApiKeyInternal(apiKey) # "null"
  /\ request' = [op |-> "pushSync", apiKey |-> apiKey]
  /\ response' = [op |-> "pushSync", ok |-> FALSE, error |-> "Rate limit exceeded"]
  /\ user' = [user EXCEPT !.lastSyncAt = now]
  /\ UNCHANGED <<configFiles, sessionFiles, syncConflicts, nextId, now, syncRoot>>
  /\ ServerStep

pushSyncRateLimited(apiKey) ==
  /\ validateApiKeyInternal(apiKey) # "null"
  /\ request' = [op |-> "pushSync", apiKey |-> apiKey]
  /\ response' = [op |-> "pushSync", ok |-> FALSE, error |-> "Rate limit exceeded"]
  /\ UNCHANGED <<configFiles, sessionFiles, syncConflicts, user, nextId, now, syncRoot>>
  /\ ServerStep

pushSyncOk(apiKey, deviceId, files) ==
  /\ validateApiKeyInternal(apiKey) # "null"
  /\ request' = [op |-> "pushSync", apiKey |-> apiKey, deviceId |-> deviceId,
                 files |-> files]
  /\ LET db == ProcessFiles(files, 1, deviceId, user, CurrentDb)
     IN /\ WithinBounds(db)
        /\ configFiles' = db.configFiles
        /\ sessionFiles' = db.sessionFiles
        /\ syncConflicts' = db.syncConflicts
        /\ nextId' = db.nextId
        /\ user' = [user EXCEPT !.storageUsed = db.storageUsed, !.lastSyncAt = now]
        /\ response' = [op |-> "pushSync", ok |-> TRUE, results |-> db.results]
  /\ UNCHANGED <<now, syncRoot>>
  /\ ServerStep

\* the handler: the key check, the rate limiter's verdict, then the loop
pushSync ==
  /\ Idle
  /\ \/ \E apiKey \in ApiKeys : pushSyncAuthError(apiKey)
     \/ pushSyncRateLimited(ValidKey)
     \/ \E deviceId \in Devices, files \in Batches : pushSyncOk(ValidKey, deviceId, files)

-----------------------------------------------------------------------------
(* sync.ts: pushSync called with the credential of another account *)

\* the tables with the ids of the two accounts exchanged: the handlers name no
\* account, so a call with the other credential is the code of the handler on
\* the exchanged tables, its writes exchanged back
Exchange(table) ==
  {[f EXCEPT !.userId = IF @ = UserId THEN OtherUserId ELSE UserId] : f \in table}

\* the users document of the other account: its quota is not reached
OtherUser == [storageUsed |-> 0, storageLimit |-> StorageLimitOf(syncRoot), lastSyncAt |-> 1]

\* the tables as a handler of the other account finds them
OtherDb ==
  [CurrentDb EXCEPT !.configFiles = Exchange(@), !.sessionFiles = Exchange(@),
                    !.syncConflicts = Exchange(@), !.storageUsed = OtherUser.storageUsed]

\* pushSync of the other account: the loop over its files
otherUserPush(deviceId, files) ==
  /\ Idle
  /\ validateApiKeyInternal(OtherKey) = OtherUserId
  /\ request' = [op |-> "pushSync", apiKey |-> OtherKey, deviceId |-> deviceId,
                 files |-> files]
  /\ \E db \in {ProcessFiles(files, 1, deviceId, OtherUser, OtherDb)} :
       /\ WithinBounds(db)
       /\ configFiles' = Exchange(db.configFiles)
       /\ sessionFiles' = Exchange(db.sessionFiles)
       /\ syncConflicts' = Exchange(db.syncConflicts)
       /\ nextId' = db.nextId
       /\ response' = [op |-> "pushSync", ok |-> TRUE, results |-> db.results]
  /\ UNCHANGED <<user, now, syncRoot>>
  /\ ServerStep

-----------------------------------------------------------------------------
(* sync.ts: pullSync *)

\* v.optional(v.number()) left out
Undefined == -1

Cursors == {Undefined} \cup (0..MaxTime)

RECURSIVE Collect(_)
\* .collect(): the documents of an index range, oldest first
Collect(docs) ==
  IF docs = {} THEN <<>>
  ELSE LET f == First(docs) IN <<f>> \o Collect(docs \ {f})

\* the by_user index without its key: every document of the table
ByAnyUser(table, userId) == table

ByUser(table, userId) == {f \in table : f.userId = userId}

PulledFile(file) ==
  [id |-> file.id, filePath |-> file.filePath, content |-> file.content,
   contentHash |-> file.contentHash, lastModified |-> file.lastModified,
   version |-> file.version, syncedAt |-> file.syncedAt, deviceId |-> file.deviceId]

\* PullFilter without the exclusion of the caller's own entries
PullFilterKeepingOwn(file, deviceId, lastSyncTime) ==
  IF lastSyncTime # Undefined THEN file.syncedAt > lastSyncTime
  ELSE TRUE

\* PullFilter that also takes the entries stamped at the cursor
PullFilterFromCursor(file, deviceId, lastSyncTime) ==
  IF file.deviceId = deviceId THEN FALSE
  ELSE IF lastSyncTime # Undefined THEN file.syncedAt >= lastSyncTime
  ELSE TRUE

\* the filter of pullSync
PullFilter(file, deviceId, lastSyncTime) ==
  IF file.deviceId = deviceId THEN FALSE
  ELSE IF lastSyncTime # Undefined THEN file.syncedAt > lastSyncTime
  ELSE TRUE

\* what a pullSync returns from the tables as they are
PullResult(deviceId, lastSyncTime) ==
  LET allFiles == Collect(ByUser(configFiles, UserId))
                  \o Collect(ByUser(sessionFiles, UserId))
      filteredFiles == SelectSeq(allFiles, LAMBDA file : PullFilter(file, deviceId, lastSyncTime))
  IN [i \in 1..Len(filteredFiles) |-> PulledFile(filteredFiles[i])]

pullSyncAuthError(apiKey) ==
  /\ validateApiKeyInternal(apiKey) = "null"
  /\ request' = [op |-> "pullSync", apiKey |-> apiKey]
  /\ response' = [op |-> "pullSync", ok |-> FALSE, error |-> "Invalid API key"]
  /\ UNCHANGED <<configFiles, sessionFiles, syncConflicts, user, nextId, now, syncRoot>>
  /\ ServerStep

pullSyncOk(apiKey, deviceId, lastSyncTime) ==
  /\ validateApiKeyInternal(apiKey) # "null"
  /\ request' = [op |-> "pullSync", apiKey |-> apiKey, deviceId |-> deviceId,
                 lastSyncTime |-> lastSyncTime]
  /\ response' = [op |-> "pullSync", ok |-> TRUE, files |-> PullResult(deviceId, lastSyncTime)]
  /\ UNCHANGED <<configFiles, sessionFiles, syncConflicts, user, nextId, now, syncRoot>>
  /\ ServerStep

pullSync ==
  /\ Idle
  /\ \/ \E apiKey \in ApiKeys : pullSyncAuthError(apiKey)
     \/ \E deviceId \in Devices, lastSyncTime \in Cursors :
          pullSyncOk(ValidKey, deviceId, lastSyncTime)

-----------------------------------------------------------------------------
(* sync.ts: deleteFile *)

Max(a, b) == IF a >= b THEN a ELSE b

\* the ids a caller may name: those of the documents, and one of none
FileIds == {f.id : f \in configFiles \cup sessionFiles} \cup {0}

deleteFileAuthError(apiKey) ==
  /\ validateApiKeyInternal(apiKey) = "null"
  /\ request' = [op |-> "deleteFile", apiKey |-> apiKey]
  /\ response' = [op |-> "deleteFile", ok |-> FALSE, error |-> "Invalid API key"]
  /\ UNCHANGED <<configFiles, sessionFiles, syncConflicts, user, nextId, now, syncRoot>>
  /\ ServerStep

deleteFileNotFound(apiKey, fileId) ==
  /\ validateApiKeyInternal(apiKey) # "null"
  /\ ~\E f \in configFiles \cup sessionFiles : f.id = fileId /\ f.userId = UserId
  /\ request' = [op |-> "deleteFile", apiKey |-> apiKey, fileId |-> fileId]
  /\ response' = [op |-> "deleteFile", ok |-> FALSE,
                  error |-> "File not found or unauthorized"]
  /\ UNCHANGED <<configFiles, sessionFiles, syncConflicts, user, nextId, now, syncRoot>>
  /\ ServerStep

deleteFileOk(apiKey, fileId) ==
  /\ validateApiKeyInternal(apiKey) # "null"
  /\ \E file \in configFiles \cup sessionFiles :
       /\ file.id = fileId
       /\ file.userId = UserId
       /\ user' = [user EXCEPT
                     !.storageUsed = Max(0, user.storageUsed - ByteLength(file.content))]
       /\ configFiles' = {f \in configFiles : f.id # fileId}
       /\ sessionFiles' = {f \in sessionFiles : f.id # fileId}
  /\ request' = [op |-> "deleteFile", apiKey |-> apiKey, fileId |-> fileId]
  /\ response' = [op |-> "deleteFile", ok |-> TRUE, success |-> TRUE]
  /\ UNCHANGED <<syncConflicts, nextId, now, syncRoot>>
  /\ ServerStep

deleteFile ==
  /\ Idle
  /\ \/ \E apiKey \in ApiKeys : deleteFileAuthError(apiKey)
     \/ \E fileId \in FileIds :
          \/ deleteFileNotFound(ValidKey, fileId)
          \/ deleteFileOk(ValidKey, fileId)

-----------------------------------------------------------------------------
(* sync.ts: clearAllFiles *)

clearAllFilesAuthError(apiKey) ==
  /\ validateApiKeyInternal(apiKey) = "null"
  /\ request' = [op |-> "clearAllFiles", apiKey |-> apiKey]
  /\ response' = [op |-> "clearAllFiles", ok |-> FALSE, error |-> "Invalid API key"]
  /\ UNCHANGED <<configFiles, sessionFiles, syncConflicts, user, nextId, now, syncRoot>>
  /\ ServerStep

clearAllFilesOk(apiKey) ==
  /\ validateApiKeyInternal(apiKey) # "null"
  /\ configFiles' = configFiles \ ByUser(configFiles, UserId)
  /\ sessionFiles' = sessionFiles \ ByUser(sessionFiles, UserId)
  /\ user' = [user EXCEPT !.storageUsed = 0]
  /\ request' = [op |-> "clearAllFiles", apiKey |-> apiKey]
  /\ response' = [op |-> "clearAllFiles", ok |-> TRUE, success |-> TRUE,
                  deletedCount |-> Cardinality(ByUser(configFiles, UserId))
                                   + Cardinality(ByUser(sessionFiles, UserId))]
  /\ UNCHANGED <<syncConflicts, nextId, now, syncRoot>>
  /\ ServerStep

clearAllFiles ==
  /\ Idle
  /\ \/ \E apiKey \in ApiKeys : clearAllFilesAuthError(apiKey)
     \/ clearAllFilesOk(ValidKey)

-----------------------------------------------------------------------------
(* conflicts.ts: resolveConflict *)

Resolutions == {"keep_local", "keep_remote", "keep_both", "manual"}

\* args.manualContent, an optional string
NoManualContent == [given |-> FALSE, content |-> ""]

\* a caller passes it with "manual" only, and then writes one of the local contents
ManualContents(resolution) ==
  IF resolution = "manual"
  THEN {NoManualContent, [given |-> TRUE, content |-> ""]}
       \cup {[given |-> TRUE, content |-> c] : c \in LocalContents(syncRoot[1])}
  ELSE {NoManualContent}

ConflictIds == {c.id : c \in syncConflicts} \cup {0}

\* args.deviceId of resolveConflict: any string, a device that took no part
\* in the conflict included
Resolvers == Devices \cup {"devC"}

\* case "manual" that throws for an absent manualContent only, not for ""
ManualContentAbsent(resolution, manualContent) ==
  resolution = "manual" /\ ~manualContent.given

\* case "manual": !args.manualContent, where the handler throws
ManualContentMissing(resolution, manualContent) ==
  resolution = "manual" /\ (~manualContent.given \/ manualContent.content = "")

\* case "keep_both"
KeepBoth(filePath, deviceAId, contentA, deviceBId, contentB) ==
  IF EndsWith(filePath, ".json") THEN mergeJSON(contentA, contentB)
  ELSE IF EndsWith(filePath, ".jsonl") THEN mergeJSONL(contentA, contentB)
  ELSE "<<<<<<< DEVICE " \o deviceAId \o "\n" \o contentA \o "\n=======\n" \o contentB
       \o "\n>>>>>>> DEVICE " \o deviceBId

\* KeepBoth on the local contents of the model's paths, computed once
KeepBothOf ==
  [k \in UNION {{<<p, dA, cA, dB, cB>> : dA \in Devices, dB \in Devices,
                  cA \in LocalContents(p), cB \in LocalContents(p)} : p \in Paths}
     |-> KeepBoth(k[1], k[2], k[3], k[4], k[5])]

\* the switch over args.resolution with keep_local tied to side A and
\* keep_remote to side B, whoever resolves
FinalContentSidesFixed(conflict, resolution, manualContent, deviceId) ==
  IF resolution = "keep_local" THEN conflict.contentA
  ELSE IF resolution = "keep_remote" THEN conflict.contentB
  ELSE IF resolution = "keep_both"
  THEN KeepBothOf[<<conflict.filePath, conflict.deviceAId, conflict.contentA,
                    conflict.deviceBId, conflict.contentB>>]
  ELSE manualContent.content

\* the switch over args.resolution, where it does not throw
FinalContent(conflict, resolution, manualContent, deviceId) ==
  IF resolution = "keep_local"
  THEN IF conflict.deviceAId = deviceId THEN conflict.contentA ELSE conflict.contentB
  ELSE IF resolution = "keep_remote"
  THEN IF conflict.deviceAId = deviceId THEN conflict.contentB ELSE conflict.contentA
  ELSE IF resolution = "keep_both"
  THEN LET k == <<conflict.filePath, conflict.deviceAId, conflict.contentA,
                  conflict.deviceBId, conflict.contentB>>
       IN IF k \in DOMAIN KeepBothOf THEN KeepBothOf[k]
          ELSE KeepBoth(k[1], k[2], k[3], k[4], k[5])
  ELSE manualContent.content

\* const isConfigFile: the table resolveConflict writes the path to
isConfigFile(filePath) ==
  \/ EndsWith(filePath, ".md")
  \/ filePath = "settings.json"
  \/ filePath = "history.jsonl"
  \/ StartsWith(filePath, "commands/")
  \/ StartsWith(filePath, "plugins/")
  \/ StartsWith(filePath, "agents/")

\* isConfigFile on the paths of the model, computed once
IsConfigFileOf == [p \in Paths |-> isConfigFile(p)]

\* the tables after the file write of resolveConflict
ResolveWrite(conflict, finalContent, deviceId, db) ==
  LET tableName == IF IsConfigFileOf[conflict.filePath] THEN "configFiles"
                   ELSE "sessionFiles"
      table == IF tableName = "configFiles" THEN db.configFiles ELSE db.sessionFiles
      found == ByUserAndPath(table, UserId, conflict.filePath)
      hash == computeHash(finalContent)
  IN
  IF found # {}
  THEN LET existingFile == First(found)
           patched == PatchFile(table, existingFile.id, finalContent, hash, now,
                                existingFile.version + 1, now, deviceId)
       IN [db EXCEPT
             !.configFiles = IF tableName = "configFiles" THEN patched ELSE @,
             !.sessionFiles = IF tableName = "sessionFiles" THEN patched ELSE @]
  ELSE IF tableName = "configFiles"
  THEN [db EXCEPT
          !.configFiles = @ \cup {ConfigDoc(db.nextId, UserId, deviceId, conflict.filePath,
                                            finalContent, hash, now, now)},
          !.nextId = @ + 1]
  ELSE LET parts == Split(conflict.filePath, "/")
           first == IF Len(parts) >= 2 THEN Split(parts[2], "-")[1] ELSE ""
           sessionId == IF first = "" THEN "unknown" ELSE first
           fileType == IF StartsWith(conflict.filePath, "todos/") THEN "todo"
                       ELSE "session-env"
       IN [db EXCEPT
             !.sessionFiles = @ \cup {SessionDoc(db.nextId, UserId, deviceId, sessionId,
                                                 fileType, conflict.filePath, finalContent,
                                                 hash, now, now)},
             !.nextId = @ + 1]

resolveConflictAuthError(apiKey) ==
  /\ validateApiKeyInternal(apiKey) = "null"
  /\ request' = [op |-> "resolveConflict", apiKey |-> apiKey]
  /\ response' = [op |-> "resolveConflict", ok |-> FALSE, error |-> "Invalid API key"]
  /\ UNCHANGED <<configFiles, sessionFiles, syncConflicts, user, nextId, now, syncRoot>>
  /\ ServerStep

resolveConflictNotFound(apiKey, conflictId) ==
  /\ validateApiKeyInternal(apiKey) # "null"
  /\ ~\E c \in syncConflicts : c.id = conflictId /\ c.userId = UserId
  /\ request' = [op |-> "resolveConflict", apiKey |-> apiKey, conflictId |-> conflictId]
  /\ response' = [op |-> "resolveConflict", ok |-> FALSE,
                  error |-> "Conflict not found or unauthorized"]
  /\ UNCHANGED <<configFiles, sessionFiles, syncConflicts, user, nextId, now, syncRoot>>
  /\ ServerStep

resolveConflictNoContent(apiKey, conflictId, resolution, manualContent, deviceId) ==
  /\ validateApiKeyInternal(apiKey) # "null"
  /\ \E conflict \in syncConflicts :
       /\ conflict.id = conflictId
       /\ conflict.userId = UserId
       /\ ManualContentMissing(resolution, manualContent)
  /\ request' = [op |-> "resolveConflict", apiKey |-> apiKey, conflictId |-> conflictId,
                 resolution |-> resolution, manualContent |-> manualContent]
  /\ response' = [op |-> "resolveConflict", ok |-> FALSE,
                  error |-> "Manual content required for manual resolution"]
  /\ UNCHANGED <<configFiles, sessionFiles, syncConflicts, user, nextId, now, syncRoot>>
  /\ ServerStep

resolveConflictOk(apiKey, conflictId, resolution, manualContent, deviceId) ==
  /\ validateApiKeyInternal(apiKey) # "null"
  /\ request' = [op |-> "resolveConflict", apiKey |-> apiKey, conflictId |-> conflictId,
                 resolution |-> resolution, manualContent |-> manualContent,
                 deviceId |-> deviceId]
  /\ \E conflict \in syncConflicts :
       /\ conflict.id = conflictId
       /\ conflict.userId = UserId
       /\ ~ManualContentMissing(resolution, manualContent)
       /\ LET finalContent == FinalContent(conflict, resolution, manualContent, deviceId)
              db == ResolveWrite(conflict, finalContent, deviceId, CurrentDb)
          IN /\ WithinBounds(db)
             /\ configFiles' = db.configFiles
             /\ sessionFiles' = db.sessionFiles
             /\ nextId' = db.nextId
             /\ syncConflicts' =
                  {IF c.id = conflictId
                   THEN [c EXCEPT !.resolvedAt = now, !.resolution = resolution]
                   ELSE c : c \in syncConflicts}
             /\ response' = [op |-> "resolveConflict", ok |-> TRUE, success |-> TRUE,
                              content |-> finalContent]
  /\ UNCHANGED <<user, now, syncRoot>>
  /\ ServerStep

resolveConflict ==
  /\ Idle
  /\ \/ \E apiKey \in ApiKeys : resolveConflictAuthError(apiKey)
     \/ \E conflictId \in ConflictIds :
          \/ resolveConflictNotFound(ValidKey, conflictId)
          \/ \E resolution \in Resolutions, deviceId \in Resolvers :
               \E manualContent \in ManualContents(resolution) :
                 \/ resolveConflictNoContent(ValidKey, conflictId, resolution,
                                             manualContent, deviceId)
                 \/ resolveConflictOk(ValidKey, conflictId, resolution, manualContent,
                                      deviceId)

-----------------------------------------------------------------------------

\* the handler's return value, or its error, reaches the caller
-----------------------------------------------------------------------------
(* The client: class SyncEngine *)

\* debounceTimer = null
NoTimer == 0

\* a path that has no file on a device's disk
Absent == "<absent>"

\* the fields of a SyncEngine after its constructor, and the full sync it is in
FreshEngine ==
  [lastSyncTime |-> 0, pendingChanges |-> {}, debounceTimer |-> NoTimer,
   retryTimers |-> <<>>, isSyncing |-> FALSE, syncs |-> 0, step |-> "idle",
   cursor |-> Undefined, pulled |-> <<>>, localFiles |-> <<>>, forceResult |-> "none",
   watching |-> TRUE, realtime |-> FALSE, exited |-> FALSE,
   snapshot |-> [files |-> {}, conflicts |-> {}], lastSeenFiles |-> {}, pulls |-> <<>>]

\* nothing observed yet
FreshTrace ==
  [lastEvent |-> 0, burstSpread |-> FALSE, burstAttempts |-> 0, changedDuringSync |-> FALSE,
   waiting |-> FALSE, startedBy |-> "none", failed |-> "no", destroyed |-> FALSE,
   unpushed |-> {}, arrived |-> {}]

\* the clients at rest: no device takes part
NoClients ==
  /\ engine = [d \in Devices |-> FreshEngine]
  /\ disk = [d \in Devices |-> [p \in Paths |-> Absent]]
  /\ trace = [d \in Devices |-> FreshTrace]

\* lastSyncTime: this.lastSyncTime || undefined
CursorArg(lastSyncTime) == IF lastSyncTime = 0 THEN Undefined ELSE lastSyncTime

RECURSIVE WriteLocalFiles(_, _, _)
\* writeLocalFiles: each file of the list written over what the disk holds
WriteLocalFiles(files, i, local) ==
  IF i > Len(files) THEN local
  ELSE WriteLocalFiles(files, i + 1, [local EXCEPT ![files[i].filePath] = files[i].content])

RECURSIVE ReadLocalFiles(_, _)
\* readLocalFiles: the files the disk holds, in the order the scan meets them
ReadLocalFiles(paths, local) ==
  IF paths = <<>> THEN <<>>
  ELSE IF local[Head(paths)] = Absent THEN ReadLocalFiles(Tail(paths), local)
  ELSE <<Hashed([filePath |-> Head(paths), content |-> local[Head(paths)],
                 lastModified |-> CHOOSE t \in MTimes : TRUE])>>
       \o ReadLocalFiles(Tail(paths), local)

\* performSync up to its first await: the flag is set and the pull is sent
\* with the cursor of this moment
StartSync(e) ==
  [e EXCEPT !.isSyncing = TRUE, !.syncs = @ + 1, !.step = "pull",
            !.cursor = CursorArg(e.lastSyncTime)]

\* performSync from its last await on: cursor, pending changes, flag
FinishSync(e, time) ==
  [e EXCEPT !.lastSyncTime = time, !.pendingChanges = {}, !.isSyncing = FALSE,
            !.syncs = @ - 1, !.step = "idle", !.pulled = <<>>, !.localFiles = <<>>]

\* performSync whose finally block leaves the flag set when a call throws
AbortSyncKeepingFlag(e) ==
  [e EXCEPT !.syncs = @ - 1, !.step = "idle", !.pulled = <<>>, !.localFiles = <<>>]

\* performSync whose catch block moves the cursor as a completed sync does
AbortSyncMovingCursor(e) ==
  [e EXCEPT !.lastSyncTime = now, !.isSyncing = FALSE, !.syncs = @ - 1, !.step = "idle",
            !.pulled = <<>>, !.localFiles = <<>>]

\* performSync when an awaited call throws: catch, then finally
AbortSync(e) ==
  [e EXCEPT !.isSyncing = FALSE, !.syncs = @ - 1, !.step = "idle",
            !.pulled = <<>>, !.localFiles = <<>>]

\* a sync attempt has started: no change waits for one any more
AttemptSeen(t) == [t EXCEPT !.changedDuringSync = FALSE, !.waiting = FALSE]

\* the history of a performSync that has returned: whether it failed; what
\* arrived during it is of no interest any more
ReturnSeen(t, failed) ==
  [t EXCEPT !.failed = IF failed THEN "failed" ELSE "no", !.arrived = {}]

\* forceSync while a sync is in flight, starting one all the same
forceSyncBusyStarting(d) ==
  /\ engine[d].isSyncing
  /\ engine' = [engine EXCEPT ![d] = StartSync(engine[d])]
  /\ UNCHANGED <<serverVars, disk, trace>>

forceSyncBusy(d) ==
  /\ engine[d].isSyncing
  /\ engine' = [engine EXCEPT ![d].forceResult = "Sync already in progress"]
  /\ UNCHANGED <<serverVars, disk, trace>>

forceSyncStart(d) ==
  /\ ~engine[d].isSyncing
  /\ engine' = [engine EXCEPT ![d] = [StartSync(engine[d]) EXCEPT !.forceResult = "none"]]
  /\ trace' = [trace EXCEPT ![d] = AttemptSeen(trace[d])]
  /\ UNCHANGED <<serverVars, disk>>

\* forceSync: the manual trigger
forceSync(d) ==
  \/ forceSyncBusy(d)
  \/ forceSyncStart(d)

\* the catalog or a Conflict holds the content for the path
HeldBy(files, conflicts, filePath, content) ==
  \/ \E f \in files : f.filePath = filePath /\ f.content = content
  \/ \E c \in conflicts : c.filePath = filePath /\ content \in {c.contentA, c.contentB}

\* the backend serves the pull of a full sync
servePull(d) ==
  /\ engine[d].step = "pull"
  /\ engine' = [engine EXCEPT ![d].step = "write",
                              ![d].pulled = PullResult(d, engine[d].cursor)]
  /\ trace' = [trace EXCEPT ![d].arrived = {}]
  /\ UNCHANGED <<serverVars, disk>>

\* the history of a push by device d: its edits that the backend now holds
\* are pushed, and an entry it wrote arrived during the full sync of every
\* other device whose pull has been served already
PushSeen(t, d, files, conflicts) ==
  [x \in Devices |->
     IF x = d
     THEN [t[x] EXCEPT !.unpushed = {p \in @ : ~HeldBy(files, conflicts, p, disk[d][p])}]
     ELSE IF engine[x].step \in {"write", "push", "pushed"}
     THEN [t[x] EXCEPT !.arrived = @ \cup {f.filePath : f \in files \ (configFiles \cup sessionFiles)}]
     ELSE t[x]]

\* the client writes what it pulled, then reads its inventory and sends it;
\* history: a local edit that is written over is no longer there to be pushed
writeAndRead(d) ==
  /\ engine[d].step = "write"
  /\ disk' = [disk EXCEPT ![d] = WriteLocalFiles(engine[d].pulled, 1, disk[d])]
  /\ engine' = [engine EXCEPT ![d].step = "push", ![d].pulled = <<>>,
                              ![d].localFiles = ReadLocalFiles(syncRoot, disk'[d])]
  /\ trace' = [trace EXCEPT ![d].unpushed = {p \in @ : disk'[d][p] = disk[d][p]}]
  /\ UNCHANGED serverVars

\* the backend serves the push of a full sync that leaves no entry above
\* the given version
PushServed(d, versions) ==
  /\ engine[d].step = "push"
  /\ LET db == ProcessFiles(engine[d].localFiles, 1, d, user, CurrentDb)
     IN /\ db.nextId <= MaxIds + 1
        /\ \A f \in AllFilesOf(db) : f.version <= versions
        /\ configFiles' = db.configFiles
        /\ sessionFiles' = db.sessionFiles
        /\ syncConflicts' = db.syncConflicts
        /\ nextId' = db.nextId
        /\ user' = [user EXCEPT !.storageUsed = db.storageUsed, !.lastSyncAt = now]
  /\ engine' = [engine EXCEPT ![d].step = "pushed"]
  /\ trace' = PushSeen(trace, d, configFiles' \cup sessionFiles', syncConflicts')
  /\ RecordVersions
  /\ UNCHANGED <<now, syncRoot, request, response, disk>>

\* the backend serves the push of a full sync
servePush(d) == PushServed(d, MaxVersion)

\* the push has returned: the rest of performSync
performSyncFinish(d) ==
  /\ engine[d].step = "pushed"
  /\ engine' = [engine EXCEPT ![d] = FinishSync(engine[d], now)]
  /\ trace' = [trace EXCEPT ![d] = ReturnSeen(trace[d], FALSE)]
  /\ UNCHANGED <<serverVars, disk>>

\* an awaited call of performSync throws
performSyncFails(d) ==
  /\ engine[d].step \in {"pull", "push"}
  /\ engine' = [engine EXCEPT ![d] = AbortSync(engine[d])]
  /\ trace' = [trace EXCEPT ![d] = ReturnSeen(trace[d], TRUE)]
  /\ UNCHANGED <<serverVars, disk>>

\* the pull and the push of a full sync both return and change no file
performSyncCompletes(d) ==
  /\ engine[d].step = "pull"
  /\ engine' = [engine EXCEPT ![d] = FinishSync(engine[d], now)]
  /\ trace' = [trace EXCEPT ![d] = ReturnSeen(trace[d], FALSE)]
  /\ UNCHANGED <<serverVars, disk>>

\* const DEBOUNCE_MS, const MIN_INTERVAL_MS, and the 100 of setTimeout in trySync
DEBOUNCE_MS == 5000
MIN_INTERVAL_MS == 30000
RetrySlackMs == 100

\* the step of the client's clock, in milliseconds
TickMs == DEBOUNCE_MS \div 2

\* Date.now() when the engine is constructed: lastSyncTime = 0 is long ago
StartClock == MIN_INTERVAL_MS

LastClock == StartClock + MaxElapses * TickMs

\* the history of a change event: a burst goes on while the events are less
\* than the debounce delay apart
EventSeen(t, e, time) ==
  [t EXCEPT !.burstAttempts = IF t.lastEvent # 0 /\ time - t.lastEvent < DEBOUNCE_MS
                              THEN @ ELSE 0,
            !.burstSpread = IF t.lastEvent # 0 /\ time - t.lastEvent < DEBOUNCE_MS
                            THEN @ \/ time > t.lastEvent ELSE FALSE,
            !.lastEvent = time,
            !.changedDuringSync = @ \/ e.isSyncing,
            !.failed = IF @ = "failed" THEN "changed" ELSE @]

\* queueChange that leaves a timer that is already armed as it is
queueChangeKeepingTimer(d, filePath) ==
  /\ engine' = [engine EXCEPT ![d].pendingChanges = @ \cup {filePath},
                              ![d].debounceTimer = IF @ = NoTimer THEN now + DEBOUNCE_MS
                                                   ELSE @]
  /\ trace' = [trace EXCEPT ![d] = EventSeen(trace[d], engine[d], now)]
  /\ UNCHANGED <<serverVars, disk>>

\* queueChange: the change is noted and the debounce timer is armed anew
queueChange(d, filePath) ==
  /\ engine' = [engine EXCEPT ![d].pendingChanges = @ \cup {filePath},
                              ![d].debounceTimer = now + DEBOUNCE_MS]
  /\ trace' = [trace EXCEPT ![d] = EventSeen(trace[d], engine[d], now)]
  /\ UNCHANGED <<serverVars, disk>>

RECURSIVE SetTimeout(_, _)
\* the pending timers of trySync with one more, the earliest first
SetTimeout(timers, at) ==
  IF timers = <<>> THEN <<at>>
  ELSE IF at <= Head(timers) THEN <<at>> \o timers
  ELSE <<Head(timers)>> \o SetTimeout(Tail(timers), at)

\* trySync without its test of the time since the last sync
trySyncNoInterval(e, time) == IF e.isSyncing THEN e ELSE StartSync(e)

\* trySync, called at the given time
trySync(e, time) ==
  IF time - e.lastSyncTime < MIN_INTERVAL_MS
  THEN [e EXCEPT !.retryTimers =
                   SetTimeout(@, time + (MIN_INTERVAL_MS - (time - e.lastSyncTime)) + RetrySlackMs)]
  ELSE IF e.isSyncing THEN e
  ELSE StartSync(e)

\* the history of a sync attempt that took the engine from e to after, made by
\* the debounce timer or by a timer of trySync: one that runs while no sync is
\* in flight takes care of the changes that arrived during the last one; one
\* of the debounce timer that is put off while no sync is in flight is waiting
\* until a sync starts; the attempt of a change that came after a failed sync
\* is noted
TrySyncSeen(t, e, after, origin) ==
  [t EXCEPT !.changedDuringSync = IF e.isSyncing THEN @ ELSE FALSE,
            !.waiting = IF after.syncs > e.syncs THEN FALSE
                        ELSE IF origin = "debounce" /\ ~e.isSyncing /\ after.retryTimers # e.retryTimers
                             THEN TRUE ELSE @,
            !.startedBy = IF after.syncs > e.syncs THEN origin
                          ELSE IF origin = "debounce" THEN "none" ELSE @,
            !.failed = IF origin = "debounce" /\ @ = "changed" THEN "attempted" ELSE @]

\* the debounce timer expires: its callback calls trySync
debounceFires(d) ==
  /\ engine[d].debounceTimer # NoTimer
  /\ now >= engine[d].debounceTimer
  /\ Len(trySync(engine[d], now).retryTimers) <= MaxRetryTimers
  /\ engine' = [engine EXCEPT ![d] = trySync([engine[d] EXCEPT !.debounceTimer = NoTimer], now)]
  /\ trace' = [trace EXCEPT ![d] = [TrySyncSeen(trace[d], engine[d], engine'[d], "debounce")
                                      EXCEPT !.burstAttempts = @ + 1]]
  /\ UNCHANGED <<serverVars, disk>>

\* a sequence without its i-th element
Without(seq, i) == SubSeq(seq, 1, i - 1) \o SubSeq(seq, i + 1, Len(seq))

\* a timer set by trySync expires: its callback calls trySync again
retryFires(d, i) ==
  /\ now >= engine[d].retryTimers[i]
  /\ engine' = [engine EXCEPT ![d] = trySync([engine[d] EXCEPT !.retryTimers = Without(@, i)], now)]
  /\ trace' = [trace EXCEPT ![d] = TrySyncSeen(trace[d], [engine[d] EXCEPT !.retryTimers = Without(@, i)],
                                                 engine'[d], "timer")]
  /\ UNCHANGED <<serverVars, disk>>

\* a timer of the device has reached its time and has not run yet
TimerDue(e, time) ==
  \/ e.debounceTimer # NoTimer /\ time >= e.debounceTimer
  \/ \E i \in 1..Len(e.retryTimers) : time >= e.retryTimers[i]

\* time passes on the client: a timer runs when its time has come, before the
\* clock moves on
Elapse ==
  /\ now < LastClock
  /\ \A d \in Devices : ~TimerDue(engine[d], now)
  /\ now' = now + TickMs
  /\ UNCHANGED <<configFiles, sessionFiles, syncConflicts, user, nextId, syncRoot,
                 request, response, highestVersion, clientVars>>

\* startRealtimeSync: the daemon opens the live subscription
startRealtimeSync(d) ==
  /\ ~engine[d].realtime
  /\ engine' = [engine EXCEPT ![d].realtime = TRUE]
  /\ UNCHANGED <<serverVars, disk, trace>>

\* subscribeToChanges: the entries last written by other devices (with three
\* entries at most the cut after 20 keeps them all) and the open conflicts
subscribeToChanges(apiKey, deviceId) ==
  IF validateApiKeyInternal(apiKey) = "null" THEN [files |-> {}, conflicts |-> {}]
  ELSE [files |-> {[id |-> f.id, filePath |-> f.filePath, contentHash |-> f.contentHash,
                    lastModified |-> f.lastModified, version |-> f.version,
                    deviceId |-> f.deviceId] :
                     f \in {g \in ByUser(configFiles, UserId) \cup ByUser(sessionFiles, UserId) :
                              g.deviceId # deviceId}},
        conflicts |-> {[id |-> c.id, filePath |-> c.filePath, deviceAId |-> c.deviceAId,
                        deviceBId |-> c.deviceBId, createdAt |-> c.createdAt] :
                         c \in {x \in syncConflicts : x.userId = UserId /\ x.resolvedAt = 0}}]

\* newFiles of the subscription's callback: the entries of a snapshot whose
\* content hash the engine has not seen
NewFiles(e, result) == {f \in result.files : f.contentHash \notin e.lastSeenFiles}

\* the callback of the subscription for one snapshot: with new files and no
\* sync in flight the hashes are noted and pullRemoteChanges sends its pull
OnUpdate(e, result) ==
  IF NewFiles(e, result) # {} /\ ~e.isSyncing
  THEN [e EXCEPT !.snapshot = result,
                 !.lastSeenFiles = @ \cup {f.contentHash : f \in result.files},
                 !.pulls = Append(@, CursorArg(e.lastSyncTime))]
  ELSE [e EXCEPT !.snapshot = result]

\* the subscription delivers the changed result of subscribeToChanges
onUpdate(d) ==
  /\ engine[d].realtime
  /\ subscribeToChanges(ValidKey, d) # engine[d].snapshot
  /\ Len(OnUpdate(engine[d], subscribeToChanges(ValidKey, d)).pulls) <= MaxPulls
  /\ engine' = [engine EXCEPT ![d] = OnUpdate(engine[d], subscribeToChanges(ValidKey, d))]
  /\ UNCHANGED <<serverVars, disk, trace>>

\* pullRemoteChanges after its await: files that came are written and the
\* cursor is moved
pullRemoteChangesReturns(d, i) ==
  /\ disk' = [disk EXCEPT ![d] = WriteLocalFiles(PullResult(d, engine[d].pulls[i]), 1, disk[d])]
  /\ engine' = [engine EXCEPT ![d].pulls = Without(@, i),
                              ![d].lastSyncTime =
                                 IF Len(PullResult(d, engine[d].pulls[i])) > 0 THEN now ELSE @]
  /\ UNCHANGED <<serverVars, trace>>

\* the pull of pullRemoteChanges throws: the error is logged
pullRemoteChangesFails(d, i) ==
  /\ engine' = [engine EXCEPT ![d].pulls = Without(@, i)]
  /\ UNCHANGED <<serverVars, disk, trace>>

\* the backend serves the push of a device that runs no engine of the model
remotePush(deviceId, files) ==
  /\ LET db == ProcessFiles(files, 1, deviceId, user, CurrentDb)
     IN /\ WithinBounds(db)
        /\ configFiles' = db.configFiles
        /\ sessionFiles' = db.sessionFiles
        /\ syncConflicts' = db.syncConflicts
        /\ nextId' = db.nextId
        /\ user' = [user EXCEPT !.storageUsed = db.storageUsed, !.lastSyncAt = now]
  /\ RecordVersions
  /\ UNCHANGED <<now, syncRoot, request, response, clientVars>>

\* shutdown up to its first await: the watcher is stopped
stopWatcher(d) ==
  /\ engine[d].watching
  /\ engine' = [engine EXCEPT ![d].watching = FALSE]
  /\ UNCHANGED <<serverVars, disk, trace>>

\* the engine after destroy: stopRealtimeSync, and the debounce timer cleared
Destroyed(e) == [e EXCEPT !.realtime = FALSE, !.debounceTimer = NoTimer]

\* destroy, called by an owner that has stopped its watcher
destroy(d) ==
  /\ ~engine[d].watching
  /\ ~trace[d].destroyed
  /\ engine' = [engine EXCEPT ![d] = Destroyed(engine[d])]
  /\ trace' = [trace EXCEPT ![d].destroyed = TRUE]
  /\ UNCHANGED <<serverVars, disk>>

\* shutdown after its await: destroy, then process.exit
shutdownExit(d) ==
  /\ ~engine[d].watching
  /\ engine' = [engine EXCEPT ![d] = [Destroyed(engine[d]) EXCEPT !.exited = TRUE]]
  /\ trace' = [trace EXCEPT ![d].destroyed = TRUE]
  /\ UNCHANGED <<serverVars, disk>>

\* the user of a device edits a file under the sync root; history: the edit
\* has not been pushed
LocalEdit(d, p, content) ==
  /\ disk[d][p] # content
  /\ disk' = [disk EXCEPT ![d][p] = content]
  /\ trace' = [trace EXCEPT ![d].unpushed = @ \cup {p}]
  /\ UNCHANGED <<serverVars, engine>>

Return ==
  /\ ~Idle
  /\ request' = [op |-> "none"]
  /\ response' = [op |-> "none", ok |-> TRUE]
  /\ UNCHANGED <<configFiles, sessionFiles, syncConflicts, user, nextId, now, syncRoot>>
  /\ ServerStep

\* the server's clock advances
Tick ==
  /\ now < MaxTime
  /\ now' = now + 1
  /\ UNCHANGED <<configFiles, sessionFiles, syncConflicts, user, nextId, syncRoot,
                 request, response>>
  /\ ServerStep

Init ==
  /\ syncRoot \in SyncRoots
  /\ configFiles = {}
  /\ sessionFiles = {}
  /\ syncConflicts = {}
  /\ user = [storageUsed |-> 0, storageLimit |-> StorageLimitOf(syncRoot), lastSyncAt |-> 1]
  /\ nextId = 1
  /\ now = 1
  /\ request = [op |-> "none"]
  /\ response = [op |-> "none", ok |-> TRUE]
  /\ highestVersion = [p \in Paths |-> 0]
  /\ NoClients

Next ==
  \/ pushSync
  \/ pullSync
  \/ deleteFile
  \/ clearAllFiles
  \/ resolveConflict
  \/ Return
  \/ Tick

Spec == Init /\ [][Next]_vars

\* two accounts on one deployment: the calls of the first and the pushes of
\* the second
IsolationNext ==
  \/ pushSync
  \/ \E deviceId \in Devices, files \in Batches : otherUserPush(deviceId, files)
  \/ pullSync
  \/ deleteFile
  \/ resolveConflict
  \/ Return
  \/ Tick

IsolationSpec == Init /\ [][IsolationNext]_vars

\* a user whose sync root holds two files and whose storageLimit has room for
\* the largest of their contents, but not for two files at once
BatchInit ==
  /\ syncRoot \in BatchRoots
  /\ configFiles = {}
  /\ sessionFiles = {}
  /\ syncConflicts = {}
  /\ user = [storageUsed |-> 0, storageLimit |-> LargestSize(syncRoot), lastSyncAt |-> 1]
  /\ nextId = 1
  /\ now = 1
  /\ request = [op |-> "none"]
  /\ response = [op |-> "none", ok |-> TRUE]
  /\ highestVersion = [p \in Paths |-> 0]
  /\ NoClients

BatchSpec == BatchInit /\ [][Next]_vars

RECURSIVE PathsOf(_)
PathsOf(root) == IF root = <<>> THEN {} ELSE {Head(root)} \cup PathsOf(Tail(root))

\* the devices run full syncs against the backend while their users edit
SyncNext ==
  \/ \E d \in Devices : forceSyncStart(d)
  \/ \E d \in Devices : servePull(d)
  \/ \E d \in Devices : writeAndRead(d)
  \/ \E d \in Devices : servePush(d)
  \/ \E d \in Devices : performSyncFinish(d)
  \/ \E d \in Devices : performSyncFails(d)
  \/ \E d \in Devices, p \in PathsOf(syncRoot) : \E content \in LocalContents(p) : LocalEdit(d, p, content)
  \/ Tick

\* two devices of one user whose sync root holds CLAUDE.md
SyncInit == Init /\ syncRoot = <<MdPath>>

SyncSpec == SyncInit /\ [][SyncNext]_vars

\* the devices whose scheduler runs
EngineDevices == {"devA"}

\* one daemon: change events, timers, manual syncs, and syncs that return
EngineNext ==
  \/ \E d \in EngineDevices, p \in PathsOf(syncRoot) : queueChange(d, p)
  \/ \E d \in EngineDevices : debounceFires(d)
  \/ \E d \in EngineDevices : \E i \in 1..Len(engine[d].retryTimers) : retryFires(d, i)
  \/ \E d \in EngineDevices : forceSync(d)
  \/ \E d \in EngineDevices : performSyncCompletes(d)
  \/ \E d \in EngineDevices : performSyncFails(d)
  \/ Elapse

EngineInit ==
  /\ syncRoot = <<MdPath>>
  /\ configFiles = {}
  /\ sessionFiles = {}
  /\ syncConflicts = {}
  /\ user = [storageUsed |-> 0, storageLimit |-> StorageLimitOf(syncRoot), lastSyncAt |-> 1]
  /\ nextId = 1
  /\ now = StartClock
  /\ request = [op |-> "none"]
  /\ response = [op |-> "none", ok |-> TRUE]
  /\ highestVersion = [p \in Paths |-> 0]
  /\ NoClients

EngineSpec == EngineInit /\ [][EngineNext]_vars

\* one daemon with its live subscription beside a device that pushes: change
\* events, timers, full syncs step by step, snapshots, pull-only syncs
RealtimeNext ==
  \/ \E d \in EngineDevices, p \in PathsOf(syncRoot) : queueChange(d, p)
  \/ \E d \in EngineDevices : debounceFires(d)
  \/ \E d \in EngineDevices : \E i \in 1..Len(engine[d].retryTimers) : retryFires(d, i)
  \/ \E d \in EngineDevices : servePull(d)
  \/ \E d \in EngineDevices : writeAndRead(d)
  \/ \E d \in EngineDevices : servePush(d)
  \/ \E d \in EngineDevices : performSyncFinish(d)
  \/ \E d \in EngineDevices : performSyncFails(d)
  \/ \E d \in EngineDevices : onUpdate(d)
  \/ \E d \in EngineDevices : \E i \in 1..Len(engine[d].pulls) : pullRemoteChangesReturns(d, i)
  \/ \E d \in EngineDevices : \E i \in 1..Len(engine[d].pulls) : pullRemoteChangesFails(d, i)
  \/ \E d \in Devices \ EngineDevices, files \in Batches : remotePush(d, files)
  \/ Elapse

\* the daemon some time after its initial sync, which found nothing on either
\* side, and after startRealtimeSync: the minimum interval has not yet elapsed
RealtimeInit ==
  /\ syncRoot = <<MdPath>>
  /\ configFiles = {}
  /\ sessionFiles = {}
  /\ syncConflicts = {}
  /\ user = [storageUsed |-> 0, storageLimit |-> StorageLimitOf(syncRoot), lastSyncAt |-> 1]
  /\ nextId = 1
  /\ now = LastClock - RealtimeTicks * TickMs
  /\ request = [op |-> "none"]
  /\ response = [op |-> "none", ok |-> TRUE]
  /\ highestVersion = [p \in Paths |-> 0]
  /\ engine = [d \in Devices |->
                 IF d \in EngineDevices
                 THEN [FreshEngine EXCEPT !.lastSyncTime = now - (MIN_INTERVAL_MS - 4 * TickMs),
                                          !.realtime = TRUE]
                 ELSE FreshEngine]
  /\ disk = [d \in Devices |-> [p \in Paths |-> Absent]]
  /\ trace = [d \in Devices |-> FreshTrace]

RealtimeSpec == RealtimeInit /\ [][RealtimeNext]_vars

-----------------------------------------------------------------------------
(* sync-utils.ts: readLocalFiles on a sync root with directories *)

\* const MAX_RECENT_FILES, const MAX_RECENT_SESSIONS
MAX_RECENT_FILES == 10
MAX_RECENT_SESSIONS == 10

EXCLUDED_DIRS == {"debug", "file-history", "shell-snapshots", "local", "statsig"}
LIMITED_DIRS == {"todos", "session-env"}

\* the entries of the sync root's directories in the order readdir lists
\* them: a file at the root, one in an excluded directory, a file beside
\* the project directories, and twelve entries of the limited directory todos
FixedEntries ==
  <<[dir |-> "", name |-> "CLAUDE.md"], [dir |-> "debug", name |-> "log.json"],
    [dir |-> "projects", name |-> "index.jsonl"],
    [dir |-> "todos", name |-> "notes.txt"],
    [dir |-> "todos", name |-> "t01.json"], [dir |-> "todos", name |-> "t02.json"],
    [dir |-> "todos", name |-> "t03.json"], [dir |-> "todos", name |-> "t04.json"],
    [dir |-> "todos", name |-> "t05.json"], [dir |-> "todos", name |-> "t06.json"],
    [dir |-> "todos", name |-> "t07.json"], [dir |-> "todos", name |-> "t08.json"],
    [dir |-> "todos", name |-> "t09.json"], [dir |-> "todos", name |-> "t10.json"],
    [dir |-> "todos", name |-> "t11.json"]>>

\* the files of the project directories: eleven sessions, a file of another
\* type, and two derived files
SessionNames ==
  <<"s01.jsonl", "s02.jsonl", "s03.jsonl", "s04.jsonl", "s05.jsonl", "s06.jsonl",
    "s07.jsonl", "s08.jsonl", "s09.jsonl", "s10.jsonl", "s11.jsonl", "memo.json",
    "agent-a1.jsonl", "agent-a2.jsonl">>

ProjectDirs == <<"p1", "p2", "p3", "p4">>

\* the ways the session files lie in the project directories: all in one,
\* dealt out in turn, and ten in one with the rest elsewhere
Distributions == {"one", "dealt", "ten"}

ProjectDirOf(distribution, i) ==
  IF distribution = "one" THEN ProjectDirs[1]
  ELSE IF distribution = "dealt" THEN ProjectDirs[((i - 1) % Len(ProjectDirs)) + 1]
  ELSE IF i <= MAX_RECENT_SESSIONS THEN ProjectDirs[1]
  ELSE ProjectDirs[((i - 1) % (Len(ProjectDirs) - 1)) + 2]

\* a sync root: every entry with its modification time, all different,
\* the later entries newer
Listing(distribution) ==
  [i \in 1..(Len(FixedEntries) + Len(SessionNames)) |->
     IF i <= Len(FixedEntries)
     THEN [dir |-> FixedEntries[i].dir, name |-> FixedEntries[i].name, mtime |-> i]
     ELSE [dir |-> "projects/" \o ProjectDirOf(distribution, i - Len(FixedEntries)),
           name |-> SessionNames[i - Len(FixedEntries)], mtime |-> i]]

\* the entries of a directory, in the order of the listing
EntriesOf(listing, dir) == SelectSeq(listing, LAMBDA e : e.dir = dir)

RECURSIVE InsertNewestFirst(_, _)
InsertNewestFirst(sorted, e) ==
  IF sorted = <<>> THEN <<e>>
  ELSE IF sorted[Len(sorted)].mtime < e.mtime
  THEN Append(InsertNewestFirst(SubSeq(sorted, 1, Len(sorted) - 1), e), sorted[Len(sorted)])
  ELSE Append(sorted, e)

RECURSIVE SortNewestFirst(_, _, _)
\* .sort((a, b) => b.mtime - a.mtime)
SortNewestFirst(entries, i, sorted) ==
  IF i > Len(entries) THEN sorted
  ELSE SortNewestFirst(entries, i + 1, InsertNewestFirst(sorted, entries[i]))

\* .slice(0, limit)
Slice(seq, limit) == SubSeq(seq, 1, IF Len(seq) < limit THEN Len(seq) ELSE limit)

\* getRecentFiles that keeps the oldest entries of the directory
getRecentFilesOldest(entries, limit) ==
  SubSeq(SortNewestFirst(entries, 1, <<>>),
         IF Len(entries) < limit THEN 1 ELSE Len(entries) - limit + 1, Len(entries))

\* getRecentFiles: the newest entries of a directory, eligible or not
getRecentFiles(entries, limit) == Slice(SortNewestFirst(entries, 1, <<>>), limit)

\* shouldSyncFile
shouldSyncFile(fileName, dirName) ==
  IF dirName = ""
  THEN EndsWith(fileName, ".md") \/ EndsWith(fileName, ".json") \/ EndsWith(fileName, ".jsonl")
  ELSE IF dirName = "commands" /\ EndsWith(fileName, ".md") THEN TRUE
  ELSE EndsWith(fileName, ".json")

\* the test of getRecentSessions on a file of a project directory
IsSessionFile(e) ==
  /\ StartsWith(e.dir, "projects/")
  /\ EndsWith(e.name, ".jsonl")
  /\ ~StartsWith(e.name, "agent-")

\* getRecentSessions with the limit applied in every project directory
getRecentSessionsPerDir(listing, limit) ==
  SortNewestFirst(
    SelectSeq(listing,
              LAMBDA e : /\ IsSessionFile(e)
                         /\ \E k \in 1..Len(getRecentFiles(SelectSeq(EntriesOf(listing, e.dir), IsSessionFile), limit)) :
                              getRecentFiles(SelectSeq(EntriesOf(listing, e.dir), IsSessionFile), limit)[k] = e),
    1, <<>>)

\* getRecentSessions: the newest session files of all project directories
getRecentSessions(listing, limit) ==
  Slice(SortNewestFirst(SelectSeq(listing, IsSessionFile), 1, <<>>), limit)

\* results.push: path.join of directory and name, the content, its hash
ScannedFile(e) ==
  Hashed([filePath |-> IF e.dir = "" THEN e.name ELSE e.dir \o "/" \o e.name,
          content |-> "{}", lastModified |-> e.mtime])

\* traverseDir on a directory of the root that is neither excluded nor the
\* projects directory
TraverseDir(listing, dirName) ==
  SelectSeq(IF dirName \in LIMITED_DIRS
            THEN getRecentFiles(EntriesOf(listing, dirName), MAX_RECENT_FILES)
            ELSE EntriesOf(listing, dirName),
            LAMBDA e : shouldSyncFile(e.name, dirName))

\* readLocalFiles on the root: its files, the recent sessions, and the files
\* of its other directories, the excluded ones left out
readLocalFiles(listing) ==
  [i \in 1..Len(TraverseDir(listing, "") \o getRecentSessions(listing, MAX_RECENT_SESSIONS)
                \o TraverseDir(listing, "todos")) |->
     ScannedFile((TraverseDir(listing, "") \o getRecentSessions(listing, MAX_RECENT_SESSIONS)
                  \o TraverseDir(listing, "todos"))[i])]

\* the newest modification time under the root
Newest(listing) ==
  CHOOSE t \in {listing[i].mtime : i \in 1..Len(listing)} :
    \A i \in 1..Len(listing) : listing[i].mtime <= t

\* a file under the sync root is modified
touch(d, i) ==
  /\ Newest(disk[d]) < Len(disk[d]) + MaxTouches
  /\ disk[d][i].mtime # Newest(disk[d])
  /\ disk' = [disk EXCEPT ![d][i].mtime = Newest(disk[d]) + 1]
  /\ UNCHANGED <<serverVars, engine, trace>>

\* performSync between a pull that brought nothing and its push: the sync
\* root is scanned
scanLocalFiles(d) ==
  /\ engine[d].step = "pull"
  /\ engine' = [engine EXCEPT ![d].step = "push", ![d].localFiles = readLocalFiles(disk[d])]
  /\ UNCHANGED <<serverVars, disk, trace>>

\* one daemon whose sync root holds directories: files are modified, syncs are
\* started by hand, scan the root, and fail at their push
ScanNext ==
  \/ \E d \in EngineDevices : \E i \in 1..Len(disk[d]) : touch(d, i)
  \/ \E d \in EngineDevices : forceSyncStart(d)
  \/ \E d \in EngineDevices : scanLocalFiles(d)
  \/ \E d \in EngineDevices : performSyncFails(d)

ScanInit ==
  /\ syncRoot = <<MdPath>>
  /\ configFiles = {}
  /\ sessionFiles = {}
  /\ syncConflicts = {}
  /\ user = [storageUsed |-> 0, storageLimit |-> StorageLimitOf(syncRoot), lastSyncAt |-> 1]
  /\ nextId = 1
  /\ now = StartClock
  /\ request = [op |-> "none"]
  /\ response = [op |-> "none", ok |-> TRUE]
  /\ highestVersion = [p \in Paths |-> 0]
  /\ engine = [d \in Devices |-> FreshEngine]
  /\ trace = [d \in Devices |-> FreshTrace]
  /\ \E distribution \in Distributions : disk = [d \in Devices |-> Listing(distribution)]

ScanSpec == ScanInit /\ [][ScanNext]_vars

\* path.join of an entry's directory and its name
EntryPath(e) == IF e.dir = "" THEN e.name ELSE e.dir \o "/" \o e.name

\* the paths under a listing
PathsUnder(listing) == {EntryPath(listing[i]) : i \in 1..Len(listing)}

\* fs.readFileSync succeeds on the entry
Readable(root, e) == EntryPath(e) \notin root.unreadable

\* the files traverseDir reads outside its try block: the eligible files of
\* the root and of its directories other than projects
ReadUnguarded(root) == TraverseDir(root.entries, "") \o TraverseDir(root.entries, "todos")

\* the recent sessions whose read does not throw: the catch block skips the
\* others
SessionsRead(root) ==
  SelectSeq(getRecentSessions(root.entries, MAX_RECENT_SESSIONS), LAMBDA e : Readable(root, e))

\* readLocalFiles throws: a read outside the try block fails
ReadThrows(root) ==
  /\ root.exists
  /\ \E i \in 1..Len(ReadUnguarded(root)) : ~Readable(root, ReadUnguarded(root)[i])

\* what readLocalFiles returns when it returns: nothing for a missing root
ReadReturns(root) ==
  IF ~root.exists THEN <<>>
  ELSE [i \in 1..Len(TraverseDir(root.entries, "") \o SessionsRead(root)
                     \o TraverseDir(root.entries, "todos")) |->
          ScannedFile((TraverseDir(root.entries, "") \o SessionsRead(root)
                       \o TraverseDir(root.entries, "todos"))[i])]

\* the permissions of a file under the sync root change
chmod(d, filePath) ==
  /\ disk[d].exists
  /\ filePath \in PathsUnder(disk[d].entries)
  /\ Cardinality((disk[d].unreadable \ {filePath}) \cup ({filePath} \ disk[d].unreadable)) <= MaxUnreadable
  /\ disk' = [disk EXCEPT ![d].unreadable = (@ \ {filePath}) \cup ({filePath} \ @)]
  /\ UNCHANGED <<serverVars, engine, trace>>

\* performSync between a pull that brought nothing and its push:
\* readLocalFiles returns, having created a root that was missing
scanRoot(d) ==
  /\ engine[d].step = "pull"
  /\ ~ReadThrows(disk[d])
  /\ engine' = [engine EXCEPT ![d].step = "push", ![d].localFiles = ReadReturns(disk[d])]
  /\ disk' = [disk EXCEPT ![d].exists = TRUE]
  /\ UNCHANGED <<serverVars, trace>>

\* readLocalFiles throws out of performSync's try block: catch, then finally
scanRootThrows(d) ==
  /\ engine[d].step = "pull"
  /\ ReadThrows(disk[d])
  /\ engine' = [engine EXCEPT ![d] = AbortSync(engine[d])]
  /\ trace' = [trace EXCEPT ![d] = ReturnSeen(trace[d], TRUE)]
  /\ UNCHANGED <<serverVars, disk>>

\* one daemon whose sync root may be missing or hold files it cannot read:
\* syncs are started by hand, scan the root, and fail at their push
RootNext ==
  \/ \E d \in EngineDevices : \E filePath \in PathsUnder(disk[d].entries) : chmod(d, filePath)
  \/ \E d \in EngineDevices : forceSyncStart(d)
  \/ \E d \in EngineDevices : scanRoot(d)
  \/ \E d \in EngineDevices : scanRootThrows(d)
  \/ \E d \in EngineDevices : engine[d].step = "push" /\ performSyncFails(d)

RootInit ==
  /\ syncRoot = <<MdPath>>
  /\ configFiles = {}
  /\ sessionFiles = {}
  /\ syncConflicts = {}
  /\ user = [storageUsed |-> 0, storageLimit |-> StorageLimitOf(syncRoot), lastSyncAt |-> 1]
  /\ nextId = 1
  /\ now = StartClock
  /\ request = [op |-> "none"]
  /\ response = [op |-> "none", ok |-> TRUE]
  /\ highestVersion = [p \in Paths |-> 0]
  /\ engine = [d \in Devices |-> FreshEngine]
  /\ trace = [d \in Devices |-> FreshTrace]
  /\ \/ disk = [d \in Devices |-> [exists |-> FALSE, entries |-> <<>>, unreadable |-> {}]]
     \/ \E distribution \in Distributions :
          disk = [d \in Devices |-> [exists |-> TRUE, entries |-> Listing(distribution),
                                     unreadable |-> {}]]

RootSpec == RootInit /\ [][RootNext]_vars

-----------------------------------------------------------------------------

\* the texts two devices hold for a structured-data path: objects, and texts
\* that JSON.parse rejects
JsonTexts == {"{\"a\":1}", "{\"a\":2,\"b\":3}", "{\"c\":4}", "{}", "zz", "{\"a\":1"}

\* the lines of the line-delimited texts: records with an id, a uuid or a
\* timestamp only, with and without timestamp, and a line that is no record
JsonlLines ==
  {"{\"id\":1,\"timestamp\":5}", "{\"id\":1,\"timestamp\":9}", "{\"uuid\":2,\"timestamp\":7}",
   "{\"timestamp\":3}", "{\"id\":1}", "zz"}

\* line-delimited texts of one line, and of two different lines in one order
JsonlTexts ==
  JsonlLines \cup UNION {{a \o "\n" \o b : b \in {l \in JsonlLines : Len(l) <= Len(a) /\ l # a}} :
                            a \in JsonlLines}

MergeContents(p) == IF p = TodoPath THEN JsonTexts ELSE JsonlTexts

\* the tables after devA has pushed contentA for the path and devB contentB
AfterBothPushed(filePath, contentA, contentB, limit) ==
  ProcessFiles(<<Hashed([filePath |-> filePath, content |-> contentB, lastModified |-> 1])>>,
               1, "devB", [storageUsed |-> Len(contentA), storageLimit |-> limit],
               ProcessFiles(<<Hashed([filePath |-> filePath, content |-> contentA,
                                      lastModified |-> 1])>>,
                            1, "devA", [storageUsed |-> 0, storageLimit |-> limit],
                            [configFiles |-> {}, sessionFiles |-> {}, syncConflicts |-> {},
                             storageUsed |-> 0, nextId |-> 1, results |-> <<>>]))

\* two devices have pushed different contents for one path, which left an open
\* Conflict
MergeInit ==
  /\ syncRoot \in {<<TodoPath>>, <<ProjectPath>>}
  /\ now = 1
  /\ request = [op |-> "none"]
  /\ response = [op |-> "none", ok |-> TRUE]
  /\ highestVersion = [p \in Paths |-> IF p = syncRoot[1] THEN 1 ELSE 0]
  /\ NoClients
  /\ \E contentA \in MergeContents(syncRoot[1]), contentB \in MergeContents(syncRoot[1]) :
       /\ contentA # contentB
       /\ user = [storageUsed |-> Len(contentA), storageLimit |-> Len(contentA) + Len(contentB),
                  lastSyncAt |-> 1]
       /\ configFiles = AfterBothPushed(syncRoot[1], contentA, contentB,
                                        Len(contentA) + Len(contentB)).configFiles
       /\ sessionFiles = AfterBothPushed(syncRoot[1], contentA, contentB,
                                         Len(contentA) + Len(contentB)).sessionFiles
       /\ syncConflicts = AfterBothPushed(syncRoot[1], contentA, contentB,
                                          Len(contentA) + Len(contentB)).syncConflicts
       /\ nextId = AfterBothPushed(syncRoot[1], contentA, contentB,
                                   Len(contentA) + Len(contentB)).nextId

\* a Conflict is open
OpenConflict == \E c \in syncConflicts : c.resolvedAt = 0

\* the open Conflict of the two pushes is resolved, by any device
MergeNext ==
  \/ OpenConflict /\ resolveConflict
  \/ Return

MergeSpec == MergeInit /\ [][MergeNext]_vars

\* no Conflict has been resolved
NoneResolved == \A c \in syncConflicts : c.resolvedAt = 0

\* two devices that have pushed different contents for CLAUDE.md, which left
\* an open Conflict: the Conflict is resolved once, time passes, and the
\* devices run full syncs while their users edit nothing
ResolveNext ==
  \/ NoneResolved /\ resolveConflict
  \/ Return
  \/ Tick
  \/ \E d \in Devices : forceSyncStart(d)
  \/ \E d \in Devices : servePull(d)
  \/ \E d \in Devices : writeAndRead(d)
  \/ \E d \in Devices : PushServed(d, MaxResolvedVersion)
  \/ \E d \in Devices : performSyncFinish(d)

\* devA's full sync has inserted its content; devB's full sync, whose pull
\* came before that insert, has pushed its own and met the Conflict
ResolveInit ==
  /\ syncRoot = <<MdPath>>
  /\ now = 1
  /\ request = [op |-> "none"]
  /\ response = [op |-> "none", ok |-> TRUE]
  /\ highestVersion = [p \in Paths |-> IF p = MdPath THEN 1 ELSE 0]
  /\ trace = [d \in Devices |-> FreshTrace]
  /\ engine = [d \in Devices |-> [FreshEngine EXCEPT !.lastSyncTime = 1]]
  /\ \E contentA \in LocalContents(MdPath), contentB \in LocalContents(MdPath) :
       /\ contentA # contentB
       /\ user = [storageUsed |-> Len(contentA), storageLimit |-> StorageLimitOf(syncRoot),
                  lastSyncAt |-> 1]
       /\ disk = [d \in Devices |->
                    [p \in Paths |-> IF p # MdPath THEN Absent
                                     ELSE IF d = "devA" THEN contentA ELSE contentB]]
       /\ configFiles = AfterBothPushed(MdPath, contentA, contentB,
                                        StorageLimitOf(syncRoot)).configFiles
       /\ sessionFiles = AfterBothPushed(MdPath, contentA, contentB,
                                         StorageLimitOf(syncRoot)).sessionFiles
       /\ syncConflicts = AfterBothPushed(MdPath, contentA, contentB,
                                          StorageLimitOf(syncRoot)).syncConflicts
       /\ nextId = AfterBothPushed(MdPath, contentA, contentB,
                                   StorageLimitOf(syncRoot)).nextId

ResolveSpec == ResolveInit /\ [][ResolveNext]_vars

\* the daemon's process is alive and its callbacks run
Running(d) == ~engine[d].exited

\* one daemon that is shut down: change events while the watcher runs, timers,
\* syncs that return, the live subscription, and the steps of stopping
StopNext ==
  \/ \E d \in EngineDevices, p \in PathsOf(syncRoot) :
       Running(d) /\ engine[d].watching /\ queueChange(d, p)
  \/ \E d \in EngineDevices : Running(d) /\ debounceFires(d)
  \/ \E d \in EngineDevices : \E i \in 1..Len(engine[d].retryTimers) : Running(d) /\ retryFires(d, i)
  \/ \E d \in EngineDevices : Running(d) /\ performSyncCompletes(d)
  \/ \E d \in EngineDevices : Running(d) /\ performSyncFails(d)
  \/ \E d \in EngineDevices : Running(d) /\ engine[d].watching /\ startRealtimeSync(d)
  \/ \E d \in EngineDevices : Running(d) /\ stopWatcher(d)
  \/ \E d \in EngineDevices : Running(d) /\ destroy(d)
  \/ \E d \in EngineDevices : Running(d) /\ shutdownExit(d)
  \/ Elapse

StopSpec == EngineInit /\ [][StopNext]_vars

-----------------------------------------------------------------------------
(* Properties of the catalog and of the calls *)

\* the catalog: both partitions
Catalog == configFiles \cup sessionFiles

\* the catalog entries of the user for a path, in either partition
EntriesAt(filePath) == {e \in Catalog : e.userId = UserId /\ e.filePath = filePath}

\* the same, after the step
EntriesAfter(filePath) ==
  {e \in configFiles' \cup sessionFiles' : e.userId = UserId /\ e.filePath = filePath}

\* the entries of the partition pushSync looks the path up in
LookedUp(filePath) ==
  {e \in (IF CategoryOf[filePath].table = "configFiles" THEN configFiles
          ELSE sessionFiles) : e.userId = UserId /\ e.filePath = filePath}

\* a step that is a pushSync call which ran its loop
PushCall == Idle /\ request'.op = "pushSync" /\ response'.ok

\* the i-th entry of that call, and its outcome
Pushed(i) == request'.files[i]
OutcomeOf(i) == response'.results[i]

\* the Conflict records the call created for its i-th entry
ConflictsRaised(i) ==
  {c \in syncConflicts' \ syncConflicts : c.filePath = Pushed(i).filePath}

\* the i-th entry is over quota for the user as the call found them
OverQuota(i) == user.storageUsed + Len(Pushed(i).content) > user.storageLimit

\* the stored entry e has another hash and another writer than the i-th entry
Diverges(e, i) ==
  e.contentHash # Pushed(i).contentHash /\ e.deviceId # request'.deviceId

\* a pushSync call has returned its results and the caller has not taken them yet
PushReturned == request.op = "pushSync" /\ response.ok

C2_OneEntryPerPath ==
  \A filePath \in Paths : Cardinality(EntriesAt(filePath)) <= 1

PushedAgain == ProcessFiles(request.files, 1, request.deviceId, user, CurrentDb)

\* C4, as stated: submitting the identical pushSync request a second time
\* leaves the stored entries' content, hash, version and writer unchanged and
\* creates no new Conflict record, whatever the first push met.
C4_RepeatedPushChangesNothing ==
  PushReturned =>
    /\ PushedAgain.syncConflicts = syncConflicts
    /\ \A e \in Catalog :
         \E f \in AllFilesOf(PushedAgain) :
           /\ f.id = e.id
           /\ f.content = e.content
           /\ f.contentHash = e.contentHash
           /\ f.version = e.version
           /\ f.deviceId = e.deviceId

\* a pullSync call has returned its files and the caller has not taken them yet
PullReturned == request.op = "pullSync" /\ response.ok

\* the files of the response, as a set
Returned == {response.files[i] : i \in 1..Len(response.files)}

\* the entries of the user that pullSync owes a device at a cursor
Owed(deviceId, lastSyncTime) ==
  {e \in Catalog : /\ e.userId = UserId
                   /\ e.deviceId # deviceId
                   /\ (lastSyncTime = Undefined \/ e.syncedAt > lastSyncTime)}

\* the fields of a catalog entry that pullSync returns
AsReturned(e) ==
  [id |-> e.id, filePath |-> e.filePath, content |-> e.content,
   contentHash |-> e.contentHash, lastModified |-> e.lastModified,
   version |-> e.version, syncedAt |-> e.syncedAt, deviceId |-> e.deviceId]

\* C5: pullSync never returns to the calling device an entry whose deviceId
\* is the caller's.
C5_NoSelfDownload ==
  PullReturned => \A f \in Returned : f.deviceId # request.deviceId

\* a pull by a device that wrote an entry of the catalog itself
C5_Witness ==
  /\ PullReturned
  /\ \E e \in Catalog : e.deviceId = request.deviceId

\* C6: pullSync returns, once each, exactly the user's catalog entries written
\* by another device and, when a cursor is given, stamped after the cursor; so
\* a first sync, which gives no cursor, receives every entry another device
\* wrote.
C6_PullReturnsExactlyOwed ==
  PullReturned =>
    /\ Returned = {AsReturned(e) : e \in Owed(request.deviceId, request.lastSyncTime)}
    /\ Len(response.files) = Cardinality(Owed(request.deviceId, request.lastSyncTime))
    /\ request.lastSyncTime = Undefined =>
         \A e \in Catalog :
           e.deviceId # request.deviceId =>
             \E f \in Returned : f.filePath = e.filePath /\ f.content = e.content

\* a pull with a cursor that returns an entry another device wrote after it
C6_Witness ==
  /\ PullReturned
  /\ request.lastSyncTime >= 1
  /\ \E f \in Returned :
       f.deviceId # request.deviceId /\ f.syncedAt > request.lastSyncTime

\* C7: a pushSync entry whose outcome is 'conflict' leaves the stored entries
\* of its path as they were, and a call of that one entry leaves the storage
\* counter of the user as it was.
C7_ConflictLeavesEntryAlone ==
  [][PushCall =>
       \A i \in 1..Len(request'.files) :
         OutcomeOf(i).status = "conflict" =>
           /\ EntriesAfter(Pushed(i).filePath) = EntriesAt(Pushed(i).filePath)
           /\ Len(request'.files) = 1 => user'.storageUsed = user.storageUsed]_vars

\* a push ended in 'conflict' and the stored entry still holds the other
\* device's content
C7_Witness ==
  /\ PushReturned
  /\ response.results[1].status = "conflict"
  /\ \E e \in EntriesAt(request.files[1].filePath), c \in syncConflicts :
       /\ c.id = response.results[1].conflictId
       /\ e.content = c.contentA
       /\ e.deviceId = c.deviceAId
       /\ e.version = 1

\* the stored entry e was written by the pusher of the i-th entry with another hash
SameWriterUpdate(e, i) ==
  e.contentHash # Pushed(i).contentHash /\ e.deviceId = request'.deviceId

\* what a same-writer update of e by the i-th entry has to leave
UpdatedInPlace(e, i) ==
  /\ \E f \in EntriesAfter(Pushed(i).filePath) :
       /\ f.id = e.id
       /\ f.content = Pushed(i).content
       /\ f.contentHash = Pushed(i).contentHash
       /\ f.lastModified = Pushed(i).lastModified
       /\ f.version = e.version + 1
       /\ f.deviceId = e.deviceId
  /\ ConflictsRaised(i) = {}
  /\ OutcomeOf(i).status = "success"

ResolveCall == Idle /\ request'.op = "resolveConflict" /\ response'.ok

\* the Conflict record that call names, as the call found it
Resolving == {c \in syncConflicts : c.id = request'.conflictId}

\* C9, as stated: a resolved Conflict record is terminal; no resolveConflict
\* call succeeds on a record that already carries resolvedAt, so none is
\* resolved a second time.
C9_ResolvedIsTerminal ==
  [][ResolveCall => \A c \in Resolving : c.resolvedAt = 0]_vars

\* C10, as stated: a successful resolveConflict writes the final content to
\* the catalog entry of the path, with the version raised by one, or as a new
\* entry at version 1 only if the catalog holds none for the path, and in the
\* same step sets resolvedAt and resolution on the Conflict record.
C10_ResolveWritesEntryAndStamps ==
  [][ResolveCall =>
       \A c \in Resolving :
         /\ \A e \in EntriesAt(c.filePath) :
              \E f \in EntriesAfter(c.filePath) :
                /\ f.id = e.id
                /\ f.content = response'.content
                /\ f.version = e.version + 1
         /\ EntriesAt(c.filePath) # {} =>
              {f.id : f \in Catalog'} = {e.id : e \in Catalog}
         /\ EntriesAt(c.filePath) = {} =>
              \E f \in EntriesAfter(c.filePath) :
                f.content = response'.content /\ f.version = 1
         /\ \E d \in syncConflicts' :
              /\ d.id = c.id
              /\ d.resolvedAt = now
              /\ d.resolution = request'.resolution]_vars

\* the i-th entry of the call was stored as a new entry
InsertedBy(i) ==
  OutcomeOf(i).status = "success" /\ LookedUp(Pushed(i).filePath) = {}

RECURSIVE ChargedBy(_)
\* the bytes of the new entries the call stored for its first i entries
ChargedBy(i) ==
  IF i = 0 THEN 0
  ELSE ChargedBy(i - 1) + (IF InsertedBy(i) THEN Len(Pushed(i).content) ELSE 0)

\* C11, as stated: a pushed entry is rejected, with outcome 'error' and
\* nothing stored, whenever the bytes charged to the user, those of the
\* earlier entries of the same batch included, plus its own byte length
\* exceed storageLimit.
C11_QuotaCountsEarlierEntries ==
  [][PushCall =>
       \A i \in 1..Len(request'.files) :
         (user.storageUsed + ChargedBy(i - 1) + Len(Pushed(i).content)
            > user.storageLimit) =>
           /\ OutcomeOf(i).status = "error"
           /\ EntriesAfter(Pushed(i).filePath) = EntriesAt(Pushed(i).filePath)]_vars

\* a step that is a successful deleteFile call
DeleteCall == Idle /\ request'.op = "deleteFile" /\ response'.ok

\* C12, as stated: a push raises storageUsed by exactly the byte lengths of
\* the new entries it inserts, several of one batch included, and by nothing
\* for updates, no-ops and conflicts; deleteFile lowers it by the byte length
\* of the deleted entry.
C12_LedgerAccounting ==
  [][/\ PushCall =>
          user'.storageUsed = user.storageUsed + ChargedBy(Len(request'.files))
     /\ DeleteCall =>
          \A e \in Catalog :
            e.id = request'.fileId =>
              user'.storageUsed = user.storageUsed - Len(e.content)]_vars

\* the i-th entry of the call did not end in success
Failed(i) == OutcomeOf(i).status \in {"conflict", "error"}

PushRefused == Idle /\ request'.op = "pushSync" /\ ~response'.ok

\* C14: a push that fails authentication or is refused by the rate limiter
\* processes no entry: the catalog, the Conflict records, storageUsed and the
\* user's lastSyncAt are all as before.
C14_RefusedPushChangesNothing ==
  [][PushRefused =>
       /\ response'.error \in {"Invalid API key", "Rate limit exceeded"}
       /\ UNCHANGED <<configFiles, sessionFiles, syncConflicts, user, nextId>>]_vars

\* the rate limiter refused a push of a user who has entries and a last sync
\* older than the clock
C14_Witness ==
  /\ request.op = "pushSync"
  /\ ~response.ok
  /\ response.error = "Rate limit exceeded"
  /\ Catalog # {}
  /\ user.lastSyncAt < now

\* the files a device may push for a path
PushableFiles(filePath) == {Hashed(r) : r \in FileRecords(filePath)}

\* two pushes of different contents for one path without an entry, by two
\* devices: r is <<dA, fA, dB, fB>>, dA's push being served first
RacingPushes ==
  {r \in Devices \X PushableFiles(syncRoot[1]) \X Devices \X PushableFiles(syncRoot[1]) :
     /\ r[1] # r[3]
     /\ r[2].content # r[4].content
     /\ EntriesAt(syncRoot[1]) = {}}

\* the tables after the push served first
AfterFirst(r) == ProcessFiles(<<r[2]>>, 1, r[1], user, CurrentDb)

\* the tables after the push served second, which reads the user document the
\* first one left
AfterSecond(r) ==
  ProcessFiles(<<r[4]>>, 1, r[3], [user EXCEPT !.storageUsed = AfterFirst(r).storageUsed],
               [AfterFirst(r) EXCEPT !.results = <<>>])

\* both pushes pass the quota check
BothWithinQuota(r) ==
  /\ user.storageUsed + Len(r[2].content) <= user.storageLimit
  /\ AfterFirst(r).storageUsed + Len(r[4].content) <= user.storageLimit

\* one entry for the path, holding the first push, and the second push
\* recorded as a Conflict
Serialized(r) ==
  /\ Cardinality({e \in AllFilesOf(AfterSecond(r)) : e.filePath = r[2].filePath}) = 1
  /\ \A e \in AllFilesOf(AfterSecond(r)) :
       e.filePath = r[2].filePath => e.content = r[2].content /\ e.deviceId = r[1]
  /\ AfterSecond(r).results[1].status = "conflict"
  /\ \E c \in AfterSecond(r).syncConflicts \ syncConflicts :
       /\ c.id = AfterSecond(r).results[1].conflictId
       /\ c.filePath = r[2].filePath
       /\ c.deviceAId = r[1] /\ c.contentA = r[2].content
       /\ c.deviceBId = r[3] /\ c.contentB = r[4].content

\* C15, as stated: two pushes of different contents for a path without an
\* entry, by two devices, served in either order, leave exactly one entry for
\* the path and the other push recorded as a Conflict.
C15_RacingPushesSerialized == \A r \in RacingPushes : Serialized(r)

\* C15, amended: the same, for two pushes that both pass the quota check; a
\* push over quota is answered 'error' and records no Conflict.
C15_RacingPushesWithinQuota ==
  \A r \in RacingPushes :
    /\ BothWithinQuota(r) => Serialized(r)
    /\ ~BothWithinQuota(r) => AfterSecond(r).syncConflicts = syncConflicts

\* both pushes were served at the same time of the clock: the entry is the
\* first one's, at version 1, and the second one's outcome is the Conflict
C15_Witness ==
  /\ PushReturned
  /\ response.results[1].status = "conflict"
  /\ Cardinality(EntriesAt(request.files[1].filePath)) = 1
  /\ \E e \in EntriesAt(request.files[1].filePath), c \in syncConflicts :
       /\ c.id = response.results[1].conflictId
       /\ e.version = 1 /\ e.syncedAt = now /\ c.createdAt = now
       /\ e.id + 1 = c.id

\* a step in which the backend served a push, a resolution or a deletion
WriteCall == Idle /\ request'.op \in {"pushSync", "resolveConflict", "deleteFile"} /\ response'.ok

\* C16: the version of a path's entry starts at 1 on the first insert, never
\* decreases over pushSync, resolveConflict and deleteFile calls (no entry of
\* the path is ever below a version the path's entry has had), and a write
\* that changes the content of an entry raises its version by exactly 1.
C16_VersionMonotonic ==
  [][WriteCall =>
       \A p \in Paths : \A f \in EntriesAfter(p) :
         /\ f.version >= 1
         /\ f.version >= highestVersion[p]
         /\ (\A e \in EntriesAt(p) : e.id # f.id) => f.version = 1
         /\ \A e \in EntriesAt(p) :
              (e.id = f.id /\ e.content # f.content) => f.version = e.version + 1]_vars

\* no Conflict waits for a resolution
NoOpenConflict == \A c \in syncConflicts : c.resolvedAt # 0

\* a full sync of device d, started now, would pull nothing and its push
\* would leave the tables as they are
SyncChangesNothing(d) ==
  /\ PullResult(d, CursorArg(engine[d].lastSyncTime)) = <<>>
  /\ AllFilesOf(ProcessFiles(ReadLocalFiles(syncRoot, disk[d]), 1, d, user, CurrentDb)) = Catalog
  /\ ProcessFiles(ReadLocalFiles(syncRoot, disk[d]), 1, d, user, CurrentDb).syncConflicts = syncConflicts

\* every device has completed a full sync, none is in flight, and further
\* full syncs, in any number and order, change neither a disk nor a table:
\* the cursors only grow, and a pull from a later cursor returns no more
Settled ==
  /\ \A d \in Devices :
       engine[d].step = "idle" /\ engine[d].lastSyncTime > 0 /\ SyncChangesNothing(d)
  /\ NoOpenConflict

\* every device holds the catalog's content for every path of the catalog
Converged == \A d \in Devices : \A e \in Catalog : disk[d][e.filePath] = e.content

\* C17: once the local edits have stopped, no Conflict is unresolved and
\* every device has completed its full syncs, so that further syncs change
\* nothing, every device's local content of every catalog path is the
\* catalog's content of that path.
C17_Convergence == Settled => Converged

\* C18: at most one performSync is in flight in a client process: no step
\* starts one while one is in flight, neither a scheduled attempt nor a
\* forceSync, and a forceSync that arrives then returns the failure result
\* 'Sync already in progress'.
C18_OneSyncInFlight ==
  [][\A d \in Devices :
       /\ engine'[d].syncs <= 1
       /\ engine[d].isSyncing => engine'[d].syncs <= engine[d].syncs
       /\ (engine[d].isSyncing /\ engine'[d].forceResult # engine[d].forceResult)
            => engine'[d].forceResult = "Sync already in progress"]_vars

\* a sync is in flight, a forceSync was turned away, and the debounce timer of
\* a change that arrived during the sync has expired without starting another
C18_Witness ==
  \E d \in Devices :
    /\ engine[d].isSyncing
    /\ engine[d].syncs = 1
    /\ engine[d].forceResult = "Sync already in progress"
    /\ trace[d].changedDuringSync
    /\ trace[d].burstAttempts = 1

\* a timer is set that will call trySync
AttemptScheduled(e) == e.debounceTimer # NoTimer \/ e.retryTimers # <<>>

\* C19: when a change event arrived while a sync was in flight, and that sync
\* has completed, a further sync attempt runs without any later change
\* event: until one has run, a timer that will run it is waiting.
C19_TrailingAttempt ==
  \A d \in Devices :
    (trace[d].changedDuringSync /\ ~engine[d].isSyncing) => AttemptScheduled(engine[d])

\* the debounce timer has expired in this step
DebounceFired(d) == trace'[d].burstAttempts > trace[d].burstAttempts

\* C20: change events that each arrive less than the debounce delay after the
\* previous one produce exactly one sync attempt: the debounce timer expires
\* once per burst, only when the delay has elapsed since the last event, and
\* until then it stays armed for the last event's time plus the delay.
C20_DebounceCoalesces ==
  [][\A d \in Devices :
       /\ DebounceFired(d) =>
            /\ now - trace[d].lastEvent >= DEBOUNCE_MS
            /\ trace'[d].burstAttempts = 1
            /\ engine'[d].debounceTimer = NoTimer
       /\ (trace'[d].lastEvent # 0 /\ trace'[d].burstAttempts = 0) =>
            engine'[d].debounceTimer = trace'[d].lastEvent + DEBOUNCE_MS]_vars

\* a burst of events spread over time has ended in its one attempt
C20_Witness ==
  \E d \in Devices :
    /\ trace[d].burstAttempts = 1
    /\ trace[d].burstSpread
    /\ engine[d].debounceTimer = NoTimer
    /\ now >= trace[d].lastEvent + DEBOUNCE_MS

\* a timer of trySync has expired in this step
RetryFired(d) ==
  /\ Len(engine'[d].retryTimers) <= Len(engine[d].retryTimers)
  /\ engine'[d].retryTimers # engine[d].retryTimers

\* C21: a sync attempt made before the minimum interval has elapsed since the
\* last completed sync starts no sync and sets a timer for the end of the
\* interval; while an attempt put off in this way is waiting a timer stays
\* set for it, also through further change events; and the timers of one
\* wait start one sync, not a second one without a new attempt between.
C21_RescheduledOnce ==
  [][\A d \in Devices :
       /\ ((DebounceFired(d) \/ RetryFired(d)) /\ now - engine[d].lastSyncTime < MIN_INTERVAL_MS) =>
            /\ engine'[d].syncs = engine[d].syncs
            /\ \E i \in 1..Len(engine'[d].retryTimers) :
                 engine'[d].retryTimers[i] = engine[d].lastSyncTime + MIN_INTERVAL_MS + RetrySlackMs
       /\ trace'[d].waiting => engine'[d].retryTimers # <<>>
       /\ (RetryFired(d) /\ engine'[d].syncs > engine[d].syncs) => trace[d].startedBy # "timer"]_vars

\* a file-change event has reached queueChange in this step
EventArrived(d) ==
  \/ trace'[d].lastEvent # trace[d].lastEvent
  \/ trace'[d].failed = "changed" /\ trace[d].failed = "failed"
  \/ engine'[d].pendingChanges # engine[d].pendingChanges /\ engine'[d].pendingChanges # {}

\* C24: after a failed sync the scheduler keeps working: the in-flight flag is
\* false whenever performSync has returned (at the return and as long as no
\* sync is in flight), a file-change event after the failure arms the
\* debounce timer, and when that timer expires the attempt is made: it starts
\* a sync when none is in flight and the minimum interval has elapsed, and
\* sets a timer for the end of the interval when it has not.
C24_SchedulerSurvivesFailure ==
  [][\A d \in Devices :
       /\ engine[d].syncs = 0 => ~engine[d].isSyncing
       /\ engine'[d].syncs < engine[d].syncs => ~engine'[d].isSyncing
       /\ (trace[d].failed # "no" /\ EventArrived(d)) =>
            engine'[d].debounceTimer = now + DEBOUNCE_MS
       /\ (trace[d].failed = "changed" /\ DebounceFired(d)) =>
            /\ engine'[d].debounceTimer = NoTimer
            /\ trace'[d].failed = "attempted"
            /\ IF now - engine[d].lastSyncTime < MIN_INTERVAL_MS
               THEN \E i \in 1..Len(engine'[d].retryTimers) :
                      engine'[d].retryTimers[i] = engine[d].lastSyncTime + MIN_INTERVAL_MS + RetrySlackMs
               ELSE engine'[d].isSyncing]_vars

\* a sync has failed, a file changed afterwards, and the debounce timer of
\* that change has started the sync that is now in flight
C24_Witness ==
  \E d \in Devices :
    /\ trace[d].failed = "attempted"
    /\ trace[d].startedBy = "debounce"
    /\ engine[d].isSyncing
    /\ engine[d].debounceTimer = NoTimer

\* C23: after the engine is stopped no new sync is started and the live
\* subscription stays closed, and a sync that is in flight when the engine is
\* stopped is not cut off: the process does not end while it runs.
C23_StopStartsNothing ==
  [][\A d \in Devices :
       /\ trace[d].destroyed => engine'[d].syncs <= engine[d].syncs
       /\ trace'[d].destroyed => ~engine'[d].realtime
       /\ engine'[d].exited => ~engine'[d].isSyncing]_vars

\* a snapshot with a content hash the engine has not seen is delivered
NovelSnapshot(d) ==
  /\ engine'[d].snapshot # engine[d].snapshot
  /\ NewFiles(engine[d], engine'[d].snapshot) # {}

\* C22: every snapshot of the subscription that holds a content hash the
\* engine has not seen starts a pull-only sync (one more pull in flight, no
\* full sync started), whatever the timers.
C22_NovelSnapshotPulls ==
  [][\A d \in Devices :
       NovelSnapshot(d) => /\ Len(engine'[d].pulls) = Len(engine[d].pulls) + 1
                           /\ engine'[d].syncs = engine[d].syncs]_vars

\* resolveConflict is called on a Conflict of the caller with resolution
\* "manual" and without content, or with the empty string
ManualCallWithoutContent ==
  /\ Idle
  /\ request'.op = "resolveConflict"
  /\ "resolution" \in DOMAIN request'
  /\ request'.resolution = "manual"
  /\ ~request'.manualContent.given \/ request'.manualContent.content = ""

\* C25: resolveConflict with resolution "manual" and missing or empty
\* manualContent is rejected with the error of the input check and changes
\* nothing: the catalog and the Conflict records (resolvedAt and resolution
\* among them) are as before.
C25_ManualNeedsContent ==
  [][ManualCallWithoutContent =>
       /\ ~response'.ok
       /\ response'.error = "Manual content required for manual resolution"
       /\ UNCHANGED <<configFiles, sessionFiles, syncConflicts, user, nextId>>]_vars

\* a manual resolution with the empty string was refused for an open Conflict
\* whose path has a catalog entry
C25_Witness ==
  /\ request.op = "resolveConflict"
  /\ "resolution" \in DOMAIN request
  /\ request.resolution = "manual"
  /\ request.manualContent = [given |-> TRUE, content |-> ""]
  /\ ~response.ok
  /\ \E c \in syncConflicts :
       /\ c.id = request.conflictId
       /\ c.resolvedAt = 0
       /\ \E f \in Catalog : f.filePath = c.filePath

\* resolveConflict resolves the Conflict c with the given resolution
ResolvedWith(c, resolution) ==
  /\ Idle
  /\ request'.op = "resolveConflict"
  /\ response'.ok
  /\ request'.conflictId = c.id
  /\ request'.resolution = resolution

\* C26: resolved by one of the conflict's two devices, keep_local yields the
\* content of the side whose device id is the resolving device's and
\* keep_remote the content of the other side; and for every resolving
\* device, one that took no part included, the two resolutions select
\* opposite sides.
C26_LocalIsTheResolversSide ==
  [][\A c \in syncConflicts :
       /\ (ResolvedWith(c, "keep_local") /\ request'.deviceId = c.deviceAId) =>
            response'.content = c.contentA
       /\ (ResolvedWith(c, "keep_local") /\ request'.deviceId = c.deviceBId) =>
            response'.content = c.contentB
       /\ (ResolvedWith(c, "keep_remote") /\ request'.deviceId = c.deviceAId) =>
            response'.content = c.contentB
       /\ (ResolvedWith(c, "keep_remote") /\ request'.deviceId = c.deviceBId) =>
            response'.content = c.contentA
       /\ (ResolvedWith(c, "keep_local") \/ ResolvedWith(c, "keep_remote")) =>
            /\ response'.content \in {c.contentA, c.contentB}
            /\ \A d \in Resolvers :
                 \/ /\ FinalContent(c, "keep_local", NoManualContent, d) = c.contentA
                    /\ FinalContent(c, "keep_remote", NoManualContent, d) = c.contentB
                 \/ /\ FinalContent(c, "keep_local", NoManualContent, d) = c.contentB
                    /\ FinalContent(c, "keep_remote", NoManualContent, d) = c.contentA
            /\ \E f \in Catalog' : f.filePath = c.filePath /\ f.content = response'.content]_vars

\* the device on side B of a Conflict with two different contents has
\* resolved it with keep_remote and got side A's content
C26_Witness ==
  /\ request.op = "resolveConflict"
  /\ response.ok
  /\ request.resolution = "keep_remote"
  /\ \E c \in syncConflicts :
       /\ c.id = request.conflictId
       /\ c.deviceBId = request.deviceId
       /\ c.deviceAId # c.deviceBId
       /\ c.contentA # c.contentB
       /\ response.content = c.contentA

\* the keys of a parsed object
KeysOf(obj) == {obj[i][1] : i \in 1..Len(obj)}

\* resolveConflict is called with keep_both on the Conflict c
KeepBothCall(c) ==
  /\ Idle
  /\ request'.op = "resolveConflict"
  /\ "resolution" \in DOMAIN request'
  /\ request'.resolution = "keep_both"
  /\ request'.conflictId = c.id

\* out is the document with the keys of both objects and b's value for a key
\* of both, written with an indent of two
UnionSecondWins(a, b, out) ==
  /\ JSONParse(out).ok
  /\ KeysOf(JSONParse(out).obj) = KeysOf(a) \cup KeysOf(b)
  /\ \A k \in KeysOf(JSONParse(out).obj) :
       Field(JSONParse(out).obj, k) = IF HasKey(b, k) THEN Field(b, k) ELSE Field(a, k)
  /\ out = JSONStringifyIndented(JSONParse(out).obj)

LinesOf(c) == NonEmpty(Split(c.contentA, "\n")) \o NonEmpty(Split(c.contentB, "\n"))

\* the identity of a line: its id, else its uuid, else its timestamp, else
\* the line itself
IdentityOf(line) == LineKey(line)

\* the timestamp of a line, 0 when it has none
TimestampOf(line) ==
  IF JSONParse(line).ok THEN Field(JSONParse(line).obj, "timestamp") ELSE 0

\* outs holds records of ins only, for every identity of ins exactly one, and
\* that one has the largest timestamp of its identity
OneRecordPerIdentity(ins, outs) ==
  /\ \A i \in 1..Len(outs) : \E j \in 1..Len(ins) : outs[i] = ins[j]
  /\ \A j \in 1..Len(ins) :
       /\ Cardinality({i \in 1..Len(outs) : IdentityOf(outs[i]) = IdentityOf(ins[j])}) = 1
       /\ \A i \in 1..Len(outs) :
            IdentityOf(outs[i]) = IdentityOf(ins[j]) => TimestampOf(outs[i]) >= TimestampOf(ins[j])

\* C28: keep_both on a .jsonl path succeeds with exactly one record per
\* identity (id, else uuid, else timestamp, else the raw line): of the
\* records that share an identity the one with the largest timestamp, and so
\* every record whose identity occurs on one side only.
C28_KeepBothJsonl ==
  [][\A c \in syncConflicts :
       (KeepBothCall(c) /\ EndsWith(c.filePath, ".jsonl")) =>
         /\ response'.ok
         /\ OneRecordPerIdentity(LinesOf(c), Split(response'.content, "\n"))]_vars

\* keep_both has merged line-delimited sides that share the identity of a
\* record, the larger timestamp on side A, side B having a record of another
\* identity
C28_Witness ==
  /\ request.op = "resolveConflict"
  /\ response.ok
  /\ request.resolution = "keep_both"
  /\ \E c \in syncConflicts :
       /\ c.id = request.conflictId
       /\ EndsWith(c.filePath, ".jsonl")
       /\ \E la \in {NonEmpty(Split(c.contentA, "\n"))[i] : i \in 1..Len(NonEmpty(Split(c.contentA, "\n")))},
             lb \in {NonEmpty(Split(c.contentB, "\n"))[i] : i \in 1..Len(NonEmpty(Split(c.contentB, "\n")))},
             lc \in {NonEmpty(Split(c.contentB, "\n"))[i] : i \in 1..Len(NonEmpty(Split(c.contentB, "\n")))} :
            /\ IdentityOf(la) = IdentityOf(lb)
            /\ TimestampOf(la) > TimestampOf(lb)
            /\ TimestampOf(lb) > 0
            /\ IdentityOf(lc) # IdentityOf(la)

\* the sync root is scanned in this step
Scanned(d) == engine[d].step = "pull" /\ engine'[d].step = "push"

\* the paths of the scanned files that lie in the directory
ScannedIn(files, dir) ==
  {files[i].filePath : i \in {j \in 1..Len(files) : StartsWith(files[j].filePath, dir \o "/")}}

\* the eligible files of the limited directory todos
EligibleTodos(listing) ==
  {listing[i] : i \in {j \in 1..Len(listing) :
                          listing[j].dir = "todos" /\ EndsWith(listing[j].name, ".json")}}

\* the entries of the limited directory todos, eligible or not
TodoEntries(listing) ==
  {listing[i] : i \in {j \in 1..Len(listing) : listing[j].dir = "todos"}}

\* the number of the given entries that are newer than e
NewerThan(entries, e) == Cardinality({x \in entries : x.mtime > e.mtime})

PrimarySessions(listing) ==
  {listing[i] : i \in {j \in 1..Len(listing) :
                          /\ StartsWith(listing[j].dir, "projects/")
                          /\ EndsWith(listing[j].name, ".jsonl")
                          /\ ~StartsWith(listing[j].name, "agent-")}}

EligibleReadable(root) ==
  SelectSeq(TraverseDir(root.entries, "") \o getRecentSessions(root.entries, MAX_RECENT_SESSIONS)
            \o TraverseDir(root.entries, "todos"),
            LAMBDA e : Readable(root, e))

\* C31: the inventory scan is best-effort: the scan of a full sync returns
\* every eligible file that can be read, whatever file cannot, and a missing
\* sync root gives an empty inventory and exists afterwards
C31_ScanIsBestEffort ==
  [][\A d \in Devices :
       (engine[d].step = "pull" /\ engine'[d].step # "pull") =>
          /\ engine'[d].step = "push"
          /\ disk'[d].exists
          /\ engine'[d].localFiles =
               IF disk[d].exists
               THEN [i \in 1..Len(EligibleReadable(disk[d])) |-> ScannedFile(EligibleReadable(disk[d])[i])]
               ELSE <<>>]_vars

\* C32: a full sync started by trySync, whether the debounce timer or a timer
\* of trySync called it, starts when at least the minimum interval has
\* elapsed since lastSyncTime.
C32_DebouncedStartRespectsInterval ==
  [][\A d \in Devices :
       ((DebounceFired(d) \/ RetryFired(d)) /\ engine'[d].syncs > engine[d].syncs) =>
          now - engine[d].lastSyncTime >= MIN_INTERVAL_MS]_vars

\* after an earlier sync has set lastSyncTime, an attempt that was put off has
\* started a sync from its timer
C32_Witness ==
  \E d \in Devices :
    /\ engine[d].isSyncing
    /\ trace[d].startedBy = "timer"
    /\ engine[d].lastSyncTime > 0
    /\ now - engine[d].lastSyncTime >= MIN_INTERVAL_MS

\* the pull step of a full sync writes over the file of the path
Overwritten(d, p) ==
  /\ engine[d].step = "write"
  /\ engine'[d].step = "push"
  /\ disk'[d][p] # disk[d][p]

\* C33: a local edit that has not been pushed is not silently discarded: the
\* pull step of a full sync writes over a file that holds such an edit only
\* when a Conflict holds the edit's content.
C33_UnpushedEditSurvivesPull ==
  [][\A d \in Devices : \A p \in Paths :
       (p \in trace[d].unpushed /\ Overwritten(d, p)) =>
          \E c \in syncConflicts :
            c.filePath = p /\ disk[d][p] \in {c.contentA, c.contentB}]_vars

\* the contents the catalog holds for a path
ContentsAt(files, filePath) == {f.content : f \in {g \in files : g.filePath = filePath}}

\* a Conflict of the path has been resolved and no device holds an edit it
\* has not pushed
ResolvedAndUnedited(p) ==
  /\ \E c \in syncConflicts : c.filePath = p /\ c.resolvedAt # 0
  /\ \A d \in Devices : p \notin trace[d].unpushed

\* C34: after a Conflict is resolved the resolved content stays the catalog
\* content of its path while no device makes a new local edit: no step, and
\* so no full sync of the resolving device, replaces it.
C34_ResolvedContentStays ==
  [][\A p \in Paths :
       ResolvedAndUnedited(p) =>
          ContentsAt(configFiles' \cup sessionFiles', p) = ContentsAt(Catalog, p)]_vars

\* performSync sets lastSyncTime in this step
CursorSet(d) == engine[d].step = "pushed" /\ engine'[d].step = "idle"

\* C35: no entry written by another device is skipped for good by a device's
\* pulls: when a full sync sets lastSyncTime, every entry that another device
\* wrote after the pull of that sync was served is returned by the device's
\* next pull.
C35_NoEntrySkipped ==
  [][\A d \in Devices : \A f \in Catalog :
       (CursorSet(d) /\ f.deviceId # d /\ f.filePath \in trace[d].arrived) =>
          PullFilter(f, d, CursorArg(engine'[d].lastSyncTime))]_vars

\* two Conflict records of one divergence: the same path, the same pair of
\* contents, pushed by the same device
SameDivergence(c1, c2) ==
  /\ c1.userId = c2.userId
  /\ c1.filePath = c2.filePath
  /\ c1.contentA = c2.contentA
  /\ c1.contentB = c2.contentB
  /\ c1.deviceBId = c2.deviceBId

\* C36: a path has at most one unresolved Conflict for one pair of contents:
\* the full syncs of a device that push the same divergent content again
\* while the Conflict is open create no further Conflict record.
C36_OneOpenConflictPerDivergence ==
  \A c1 \in syncConflicts : \A c2 \in syncConflicts :
    (c1.resolvedAt = 0 /\ c2.resolvedAt = 0 /\ SameDivergence(c1, c2)) => c1.id = c2.id

\* a full sync is between its pull request and the end of its local writes
FullSyncWriting(e) == e.step \in {"pull", "write"}

\* a pull-only sync is between its pull request and the end of its local
\* writes
PullOnlyInFlight(e) == Len(e.pulls) > 0

\* C37: a pull-only sync and a full sync never run at one time in one client:
\* while one of them is between its request and the end of its local file
\* writes the other does not start.
C37_PullAndFullSyncExclusive ==
  [][\A d \in Devices :
       /\ engine'[d].syncs > engine[d].syncs => ~PullOnlyInFlight(engine[d])
       /\ Len(engine'[d].pulls) > Len(engine[d].pulls) => ~FullSyncWriting(engine[d])]_vars

\* the i-th pull-only sync in flight ends in this step without its files: its
\* query would have returned files, and neither were they written nor was
\* the cursor moved
PullFailed(d, i) ==
  /\ i \in 1..Len(engine[d].pulls)
  /\ engine'[d].pulls = Without(engine[d].pulls, i)
  /\ Len(PullResult(d, engine[d].pulls[i])) > 0
  /\ engine[d].lastSyncTime # now
  /\ engine'[d].lastSyncTime = engine[d].lastSyncTime
  /\ disk'[d] = disk[d]

\* C38: a content hash counts as seen only once its content has been pulled:
\* when the pull that a snapshot triggered fails, the hashes of the files it
\* was to bring are not in the seen set, so that the next snapshot triggers a
\* pull again.
C38_FailedPullKeepsHashesNovel ==
  [][\A d \in Devices : \A i \in 1..MaxPulls :
       PullFailed(d, i) =>
          \A j \in 1..Len(PullResult(d, engine[d].pulls[i])) :
            PullResult(d, engine[d].pulls[i])[j].contentHash \notin engine'[d].lastSeenFiles]_vars

\* a full sync of the device ends in its catch block in this step
SyncFailed(d) ==
  /\ engine[d].isSyncing
  /\ ~engine'[d].isSyncing
  /\ trace'[d].failed = "failed"

\* the ids of the entries a pull of the device with the cursor returns
IdsOwed(d, lastSyncTime) ==
  {PullResult(d, lastSyncTime)[i].id : i \in 1..Len(PullResult(d, lastSyncTime))}

\* C39: a full sync that fails leaves lastSyncTime as it was, which is the
\* cursor its own pull was sent with; and from then until the next pull of
\* the device is served every entry a pull with that cursor returns stays
\* one that such a pull returns, so that the next pull returns every entry
\* the failed sync would have returned.
C39_FailedSyncKeepsCursor ==
  [][\A d \in Devices :
       /\ SyncFailed(d) =>
            /\ engine'[d].lastSyncTime = engine[d].lastSyncTime
            /\ CursorArg(engine'[d].lastSyncTime) = engine[d].cursor
       /\ \A lastSyncTime \in Cursors :
            (/\ trace[d].failed = "failed"
             /\ engine[d].step \in {"idle", "pull"}
             /\ lastSyncTime = CursorArg(engine[d].lastSyncTime)) =>
               IdsOwed(d, lastSyncTime) \subseteq IdsOwed(d, lastSyncTime)']_vars

\* after a completed sync set the cursor, a full sync of the device has
\* failed while another device's entry is newer than the cursor
C39_Witness ==
  \E d \in Devices :
    /\ trace[d].failed = "failed"
    /\ ~engine[d].isSyncing
    /\ engine[d].lastSyncTime > 0
    /\ IdsOwed(d, CursorArg(engine[d].lastSyncTime)) # {}

\* the documents of a table that belong to the caller, and those that do not
Own(table) == {f \in table : f.userId = UserId}
Foreign(table) == {f \in table : f.userId # UserId}

\* what pullSync returns from the tables once the documents of other accounts
\* are taken from them
PullWithoutOthers(deviceId, lastSyncTime) ==
  LET allFiles == Collect(Own(configFiles)) \o Collect(Own(sessionFiles))
      filteredFiles == SelectSeq(allFiles, LAMBDA file : PullFilter(file, deviceId, lastSyncTime))
  IN [i \in 1..Len(filteredFiles) |-> PulledFile(filteredFiles[i])]

\* the snapshot of subscribeToChanges names documents of the caller only
SnapshotIsOwn(result) ==
  /\ \A f \in result.files : \E g \in Own(configFiles \cup sessionFiles) : g.id = f.id
  /\ \A c \in result.conflicts : \E x \in Own(syncConflicts) : x.id = c.id

\* a call made with the credential of the caller has been served
CallerServed(ops) == request'.op \in ops /\ request'.apiKey = ValidKey

\* C40: pullSync and subscribeToChanges return documents of the caller's
\* account only, deleteFile and resolveConflict leave the documents of other
\* accounts as they were, a pull returns what it would return from tables
\* without the documents of other accounts, and a push of another account
\* changes neither the caller's documents nor the result of any pull of the
\* caller.
C40_UserIsolation ==
  [][/\ CallerServed({"pullSync"}) /\ response'.ok =>
          /\ \A i \in 1..Len(response'.files) :
                \E g \in Own(configFiles \cup sessionFiles) :
                  PulledFile(g) = response'.files[i]
          /\ response'.files = PullWithoutOthers(request'.deviceId, request'.lastSyncTime)
     /\ \A d \in Devices : SnapshotIsOwn(subscribeToChanges(ValidKey, d))
     /\ CallerServed({"pullSync", "deleteFile", "resolveConflict"}) =>
          /\ Foreign(configFiles') = Foreign(configFiles)
          /\ Foreign(sessionFiles') = Foreign(sessionFiles)
          /\ Foreign(syncConflicts') = Foreign(syncConflicts)
     /\ request'.op = "pushSync" /\ request'.apiKey = OtherKey =>
          /\ Own(configFiles') = Own(configFiles)
          /\ Own(sessionFiles') = Own(sessionFiles)
          /\ Own(syncConflicts') = Own(syncConflicts)
          /\ user' = user
          /\ \A d \in Devices, lastSyncTime \in Cursors :
                PullResult(d, lastSyncTime)' = PullResult(d, lastSyncTime)]_vars

\* a pull of the caller has returned an entry while the tables hold a document
\* of another account that the filter of the pull would let through
C40_Witness ==
  /\ request.op = "pullSync"
  /\ request.apiKey = ValidKey
  /\ response.ok
  /\ Len(response.files) >= 1
  /\ \E g \in Foreign(configFiles \cup sessionFiles) :
       PullFilter(g, request.deviceId, request.lastSyncTime)
  /\ Foreign(syncConflicts) # {}

====
